---------------------------- MODULE Spec2Model ----------------------------
(***************************************************************************)
(* Model of the repository-tree reconciliation tools of the URDF robot     *)
(* gallery: tools/backfill-urdf-paths.mjs and tools/refresh-robots.mjs.    *)
(*                                                                         *)
(* Strings that the code inspects character by character (file paths) are  *)
(* sequences of one-character strings.  Repository names are atoms with a  *)
(* finite lower-casing table.                                              *)
(***************************************************************************)
EXTENDS Integers, Sequences, FiniteSets, TLC

(***************************************************************************)
(* Bounds of the model.                                                    *)
(***************************************************************************)
MaxTree == 2
MaxRefs == 2
MaxWorkers == 2
MaxLimit == 1

(***************************************************************************)
(* Characters and JavaScript string primitives.                            *)
(***************************************************************************)
Ascii ==
  <<" ", "!", "\"", "#", "$", "%", "&", "'", "(", ")", "*", "+", ",", "-", ".", "/",
    "0", "1", "2", "3", "4", "5", "6", "7", "8", "9", ":", ";", "<", "=", ">", "?",
    "@", "A", "B", "C", "D", "E", "F", "G", "H", "I", "J", "K", "L", "M", "N", "O",
    "P", "Q", "R", "S", "T", "U", "V", "W", "X", "Y", "Z", "[", "\\", "]", "^", "_",
    "grave", "a", "b", "c", "d", "e", "f", "g", "h", "i", "j", "k", "l", "m", "n", "o",
    "p", "q", "r", "s", "t", "u", "v", "w", "x", "y", "z", "{", "|", "}", "~">>

\* String.prototype.charCodeAt on printable ASCII; code 96 has no entry of its own
CharCode(c) == 31 + (CHOOSE i \in 1..Len(Ascii) : Ascii[i] = c)

IsUpperChar(c) == CharCode(c) \in 65..90

\* String.prototype.toLowerCase, one character
LowerChar(c) == IF IsUpperChar(c) THEN Ascii[CharCode(c) + 32 - 31] ELSE c

\* String.prototype.toLowerCase
ToLower(s) == [i \in 1..Len(s) |-> LowerChar(s[i])]

\* String.prototype.startsWith
StartsWith(s, pre) ==
  /\ Len(pre) <= Len(s)
  /\ SubSeq(s, 1, Len(pre)) = pre

\* String.prototype.endsWith
EndsWith(s, suf) ==
  /\ Len(suf) <= Len(s)
  /\ SubSeq(s, Len(s) - Len(suf) + 1, Len(s)) = suf

\* String.prototype.includes
Includes(s, sub) ==
  \E i \in 0..(Len(s) - Len(sub)) : SubSeq(s, i + 1, i + Len(sub)) = sub

\* value.replace(/\\/g, "/")
SlashNormalize(s) == [i \in 1..Len(s) |-> IF s[i] = "\\" THEN "/" ELSE s[i]]

\* value.replace(/^\/+/, "")
RECURSIVE StripLeadingSlashes(_)
StripLeadingSlashes(s) ==
  IF s # <<>> /\ Head(s) = "/" THEN StripLeadingSlashes(Tail(s)) ELSE s

\* value.replace(/\/+$/, "")
RECURSIVE StripTrailingSlashes(_)
StripTrailingSlashes(s) ==
  IF s # <<>> /\ s[Len(s)] = "/"
    THEN StripTrailingSlashes(SubSeq(s, 1, Len(s) - 1))
    ELSE s

\* value.replace(/^\/+|\/+$/g, "")
StripSlashes(s) == StripTrailingSlashes(StripLeadingSlashes(s))

\* index of the last "/" of s, 0 when there is none
RECURSIVE LastSlash(_)
LastSlash(s) ==
  IF s = <<>> THEN 0
  ELSE IF s[Len(s)] = "/" THEN Len(s)
  ELSE LastSlash(SubSeq(s, 1, Len(s) - 1))

\* path.posix.basename
Basename(s) ==
  LET t == StripTrailingSlashes(s)
  IN  IF t = <<>> THEN (IF s = <<>> THEN <<>> ELSE <<"/">>)
      ELSE SubSeq(t, LastSlash(t) + 1, Len(t))

\* path.posix.dirname
Dirname(s) ==
  LET t == StripTrailingSlashes(s)
      k == LastSlash(t)
  IN  IF t = <<>> THEN (IF s = <<>> THEN <<".">> ELSE <<"/">>)
      ELSE IF k = 0 THEN <<".">>
      ELSE LET d == StripTrailingSlashes(SubSeq(t, 1, k))
           IN  IF d = <<>> THEN <<"/">> ELSE d

DotUrdf == <<".", "u", "r", "d", "f">>

\* p.toLowerCase().endsWith(".urdf")
IsUrdf(p) == EndsWith(ToLower(p), DotUrdf)

\* value.replace(/\.urdf$/i, "")
StripUrdf(s) == IF IsUrdf(s) THEN SubSeq(s, 1, Len(s) - Len(DotUrdf)) ELSE s

(***************************************************************************)
(* String.prototype.localeCompare under the default (root) collation:      *)
(* punctuation before digits before letters, letters compared without case *)
(* first, and a lower-case letter before its upper-case form when the      *)
(* strings are otherwise equal.                                            *)
(***************************************************************************)
CollationOrder ==
  <<"_", "-", ".", "/", "\\", "0", "1", "2", "3", "4", "5", "6", "7", "8", "9",
    "a", "b", "c", "d", "e", "f", "g", "h", "i", "j", "k", "l", "m", "n", "o",
    "p", "q", "r", "s", "t", "u", "v", "w", "x", "y", "z">>

PrimaryWeight(c) ==
  CHOOSE i \in 1..Len(CollationOrder) : CollationOrder[i] = LowerChar(c)

RECURSIVE PrimaryCompare(_, _)
PrimaryCompare(a, b) ==
  IF a = <<>> /\ b = <<>> THEN 0
  ELSE IF a = <<>> THEN -1
  ELSE IF b = <<>> THEN 1
  ELSE IF PrimaryWeight(Head(a)) < PrimaryWeight(Head(b)) THEN -1
  ELSE IF PrimaryWeight(Head(a)) > PrimaryWeight(Head(b)) THEN 1
  ELSE PrimaryCompare(Tail(a), Tail(b))

RECURSIVE CaseCompare(_, _)
CaseCompare(a, b) ==
  IF a = <<>> \/ b = <<>> THEN 0
  ELSE IF ~IsUpperChar(Head(a)) /\ IsUpperChar(Head(b)) THEN -1
  ELSE IF IsUpperChar(Head(a)) /\ ~IsUpperChar(Head(b)) THEN 1
  ELSE CaseCompare(Tail(a), Tail(b))

\* a.localeCompare(b)
LocaleCompare(a, b) ==
  LET p == PrimaryCompare(a, b)
  IN  IF p # 0 THEN p ELSE CaseCompare(a, b)

\* (a, b) => a.length - b.length || a.localeCompare(b)
PathCompare(a, b) ==
  IF Len(a) # Len(b) THEN Len(a) - Len(b) ELSE LocaleCompare(a, b)

\* the two comparators handed to Array.prototype.sort
Compare(kind, a, b) ==
  IF kind = "length-locale" THEN PathCompare(a, b) ELSE LocaleCompare(a, b)

\* insertion of x into the sorted sequence t, after every element not above it
InsertSorted(x, t, kind) ==
  LET above == {i \in 1..Len(t) : Compare(kind, x, t[i]) < 0}
      pos == IF above = {} THEN Len(t) + 1
             ELSE CHOOSE i \in above : \A j \in above : i <= j
  IN  SubSeq(t, 1, pos - 1) \o <<x>> \o SubSeq(t, pos, Len(t))

\* Array.prototype.sort (stable) with the comparator named by kind
SortBy(s, kind) ==
  LET f[n \in 0..Len(s)] ==
        IF n = 0 THEN <<>> ELSE InsertSorted(s[n], f[n - 1], kind)
  IN  f[Len(s)]

Range(s) == {s[i] : i \in 1..Len(s)}

(***************************************************************************)
(* Preview-key derivation: slugify, hashString (32-bit FNV-1a) and         *)
(* toPreviewBase.  A 32-bit hash value is the pair <<high, low>> of its     *)
(* 16-bit halves; toString(36) is one-to-one on such values, so the pair    *)
(* stands for the base-36 text.                                            *)
(***************************************************************************)
\* x ^ y on the low eight bits
RECURSIVE Xor8(_, _, _)
Xor8(x, y, n) ==
  IF n = 0 THEN 0
  ELSE ((x + y) % 2) + 2 * Xor8(x \div 2, y \div 2, n - 1)

\* hash ^= code; hash = Math.imul(hash, 16777619), on <<high, low>>
FnvStep(h, code) ==
  LET lo == (h[2] \div 256) * 256 + Xor8(h[2] % 256, code, 8)
      hi == h[1]
      lowProduct == lo * 403
  IN  << (hi * 403 + (lowProduct \div 65536) + (lo % 256) * 256) % 65536,
         lowProduct % 65536 >>

\* hashString: the seed 2166136261 is 0x811C9DC5
hashString(value) ==
  LET f[n \in 0..Len(value)] ==
        IF n = 0 THEN <<33052, 40389>> ELSE FnvStep(f[n - 1], CharCode(value[n]))
  IN  f[Len(value)]

IsSlugChar(c) ==
  \/ CharCode(c) \in 48..57
  \/ CharCode(c) \in 65..90
  \/ CharCode(c) \in 97..122
  \/ c \in {".", "_", "-"}

\* String.prototype.trim (blanks)
RECURSIVE TrimLeft(_)
TrimLeft(s) == IF s # <<>> /\ Head(s) = " " THEN TrimLeft(Tail(s)) ELSE s

RECURSIVE TrimRight(_)
TrimRight(s) ==
  IF s # <<>> /\ s[Len(s)] = " " THEN TrimRight(SubSeq(s, 1, Len(s) - 1)) ELSE s

\* .replace(/[^a-zA-Z0-9._-]+/g, "-").replace(/-+/g, "-")
RECURSIVE Hyphenate(_)
Hyphenate(s) ==
  IF s = <<>> THEN <<>>
  ELSE LET c == IF IsSlugChar(Head(s)) THEN Head(s) ELSE "-"
           rest == Hyphenate(Tail(s))
       IN  IF c = "-" /\ rest # <<>> /\ Head(rest) = "-" THEN rest
           ELSE <<c>> \o rest

\* .replace(/^-|-$/g, "")
TrimHyphen(s) ==
  LET a == IF s # <<>> /\ Head(s) = "-" THEN Tail(s) ELSE s
  IN  IF a # <<>> /\ a[Len(a)] = "-" THEN SubSeq(a, 1, Len(a) - 1) ELSE a

slugify(value) ==
  ToLower(TrimHyphen(Hyphenate(StripUrdf(TrimRight(TrimLeft(value))))))

Robot == <<"r", "o", "b", "o", "t">>

\* toPreviewBase hashing the basename it slugs, not the whole path
toPreviewBaseOfName(value) ==
  LET normalized == StripUrdf(SlashNormalize(value))
      k == LastSlash(normalized)
      last == SubSeq(normalized, k + 1, Len(normalized))
      name == IF last = <<>> THEN normalized ELSE last
      slug == slugify(name)
  IN  [slug |-> IF slug = <<>> THEN Robot ELSE slug,
       hash |-> hashString(name)]

\* the slug and the hash joined by "--"
toPreviewBase(value) ==
  LET normalized == StripUrdf(SlashNormalize(value))
      k == LastSlash(normalized)
      last == SubSeq(normalized, k + 1, Len(normalized))
      name == IF last = <<>> THEN normalized ELSE last
      slug == slugify(name)
  IN  [slug |-> IF slug = <<>> THEN Robot ELSE slug,
       hash |-> hashString(normalized)]

(***************************************************************************)
(* Repository identifiers.  A repository string is NoRepo (absent or empty) *)
(* or a record of its owner and name segments, with or without the         *)
(* "https://github.com/" prefix.  A repository key is the pair of the      *)
(* lower-cased segments, NoKey being the empty string.                     *)
(***************************************************************************)
NoRepo == [absent |-> TRUE]
NoKey == <<>>

LowerName ==
  [Acme |-> "acme", acme |-> "acme", so100 |-> "so100", Beta |-> "beta",
   beta |-> "beta", arm |-> "arm", gamma |-> "gamma", hand |-> "hand"]

RepoUrl(owner, repo) == [absent |-> FALSE, url |-> TRUE, owner |-> owner, repo |-> repo]
RepoKeyText(owner, repo) == [absent |-> FALSE, url |-> FALSE, owner |-> owner, repo |-> repo]

normalizeRepoKey(value) ==
  IF value.absent THEN NoKey
  ELSE <<LowerName[value.owner], LowerName[value.repo]>>

NoRepoInfo == [none |-> TRUE]

parseRepo(repoUrl) ==
  IF repoUrl.absent THEN NoRepoInfo
  ELSE [none |-> FALSE, owner |-> repoUrl.owner, repo |-> repoUrl.repo]

\* entry.repo || entry.repoKey
RepoOrKey(entry) == IF entry.repo.absent THEN entry.repoKey ELSE entry.repo

(***************************************************************************)
(* Tree resolver: blob paths of a tree response, scoped-path synthesis and *)
(* the index of .urdf candidates.                                          *)
(***************************************************************************)
NoPath == <<>>

\* (treeData.tree || []).filter(node => node?.path && node?.type === "blob").map(node => node.path)
TreePaths(tree) ==
  LET IsBlob(node) == node.path # NoPath /\ node.type = "blob"
      blobs == SelectSeq(tree, IsBlob)
  IN  [i \in 1..Len(blobs) |-> blobs[i].path]

\* entry.path ? entry.path.replace(/^\/+|\/+$/g, "") : ""
NormalizedPath(entry) == IF entry.path = NoPath THEN NoPath ELSE StripSlashes(entry.path)

\* the prefix put in front whenever some path lacks it
NormalizedTreePathsEager(treePaths, normalizedPath) ==
  LET allPrefixed ==
        \A i \in 1..Len(treePaths) : StartsWith(treePaths[i], normalizedPath \o <<"/">>)
  IN  IF normalizedPath # NoPath /\ ~allPrefixed
        THEN [i \in 1..Len(treePaths) |-> normalizedPath \o <<"/">> \o treePaths[i]]
        ELSE treePaths

NormalizedTreePaths(treePaths, normalizedPath) ==
  LET hasPrefix ==
        IF normalizedPath # NoPath
          THEN \E i \in 1..Len(treePaths) :
                 StartsWith(treePaths[i], normalizedPath \o <<"/">>)
          ELSE FALSE
  IN  IF normalizedPath # NoPath /\ ~hasPrefix
        THEN [i \in 1..Len(treePaths) |-> normalizedPath \o <<"/">> \o treePaths[i]]
        ELSE treePaths

\* every resolved path a candidate, whatever its extension
UrdfPathsUnfiltered(normalizedTreePaths) == normalizedTreePaths

UrdfPaths(normalizedTreePaths) == SelectSeq(normalizedTreePaths, IsUrdf)

\* urdfByPath.get(key): the last path whose lower-cased form is key
UrdfByPathGet(urdfPaths, key) ==
  LET hits == {i \in 1..Len(urdfPaths) : ToLower(urdfPaths[i]) = key}
  IN  IF hits = {} THEN NoPath
      ELSE urdfPaths[CHOOSE i \in hits : \A j \in hits : j <= i]

\* urdfByName.get(nameKey): the paths with that lower-cased basename, in tree order
UrdfByNameGet(urdfPaths, nameKey) ==
  LET SameName(p) == ToLower(Basename(p)) = nameKey
  IN  SelectSeq(urdfPaths, SameName)

(***************************************************************************)
(* Path matcher.                                                           *)
(***************************************************************************)
\* pickBestPath sorting by name alone
pickBestPathByName(paths, preferredPrefix) ==
  IF paths = <<>> THEN NoPath
  ELSE LET prefix == StripSlashes(preferredPrefix)
           InScope(p) == StartsWith(p, prefix \o <<"/">>)
           scoped == IF preferredPrefix # NoPath THEN SelectSeq(paths, InScope) ELSE <<>>
           candidates == IF scoped # <<>> THEN scoped ELSE paths
       IN  SortBy(candidates, "locale")[1]

\* pickBestPath without the narrowing to the preferred prefix
pickBestPathUnscoped(paths, preferredPrefix) ==
  IF paths = <<>> THEN NoPath
  ELSE SortBy(paths, "length-locale")[1]

\* pickBestPath of backfill-urdf-paths.mjs
pickBestPath(paths, preferredPrefix) ==
  IF paths = <<>> THEN NoPath
  ELSE LET prefix == StripSlashes(preferredPrefix)
           InScope(p) == StartsWith(p, prefix \o <<"/">>)
           scoped == IF preferredPrefix # NoPath THEN SelectSeq(paths, InScope) ELSE <<>>
           candidates == IF scoped # <<>> THEN scoped ELSE paths
       IN  SortBy(candidates, "length-locale")[1]

\* pickBestPath of refresh-robots.mjs
pickBestPathRefresh(paths, preferredPrefix, originalPath) ==
  IF paths = <<>> THEN NoPath
  ELSE LET prefix == StripSlashes(preferredPrefix)
           InScope(p) == StartsWith(p, prefix \o <<"/">>)
           scoped == IF preferredPrefix # NoPath THEN SelectSeq(paths, InScope) ELSE <<>>
           candidates == IF scoped # <<>> THEN scoped ELSE paths
           normalized == StripLeadingSlashes(SlashNormalize(originalPath))
           InDir(p) == Includes(p, Dirname(normalized))
           sameDir == IF originalPath # NoPath /\ Includes(originalPath, <<"/">>)
                        THEN SelectSeq(candidates, InDir) ELSE <<>>
           narrowed == IF sameDir # <<>> THEN sameDir ELSE candidates
       IN  SortBy(narrowed, "length-locale")[1]

\* value.replace(/\\/g, "/").replace(/^\/+/, "")
RawFile(file) == StripLeadingSlashes(SlashNormalize(file))

\* the candidate by basename alone, the exact path not looked up
BackfillCandidateByName(file, urdfPaths, normalizedPath) ==
  pickBestPath(UrdfByNameGet(urdfPaths, ToLower(Basename(RawFile(file)))), normalizedPath)

\* direct || pickBestPath(urdfByName.get(nameKey), normalizedPath)   (backfill)
BackfillCandidate(file, urdfPaths, normalizedPath) ==
  LET fileValue == RawFile(file)
      direct == UrdfByPathGet(urdfPaths, ToLower(fileValue))
      nameKey == ToLower(Basename(fileValue))
  IN  IF direct # NoPath THEN direct
      ELSE pickBestPath(UrdfByNameGet(urdfPaths, nameKey), normalizedPath)

\* direct || pickBestPath(urdfByName.get(nameKey), normalizedPath, rawFile)   (refresh)
RefreshCandidate(file, urdfPaths, normalizedPath) ==
  LET rawFile == RawFile(file)
      direct == UrdfByPathGet(urdfPaths, ToLower(rawFile))
      nameKey == ToLower(Basename(rawFile))
  IN  IF direct # NoPath THEN direct
      ELSE pickBestPathRefresh(UrdfByNameGet(urdfPaths, nameKey), normalizedPath, rawFile)

(***************************************************************************)
(* Per-entry reconciliation of the references (entry.robots).  A reference *)
(* is a record: kind "str" for a bare string, "obj" for an object with     *)
(* file, name and fileBase.                                                *)
(***************************************************************************)
NoBase == [none |-> TRUE]
NotFound == "not found in tree"

\* if (!robot) return robot (a string);  if (!fileValue) return robot (an object)
BackfillSkips(robot) ==
  IF robot.kind = "str" THEN robot.file = NoPath ELSE RawFile(robot.file) = NoPath

\* robots.map(...) of backfill: the reference at one position after matching
BackfillRobot(robot, urdfPaths, normalizedPath) ==
  LET candidate == BackfillCandidate(robot.file, urdfPaths, normalizedPath)
  IN  IF BackfillSkips(robot) THEN robot
      ELSE IF candidate # NoPath /\ candidate # robot.file
        THEN [robot EXCEPT !.file = candidate]
      ELSE robot

\* whether that position pushes a "not found in tree" record
BackfillMissing(robot, urdfPaths, normalizedPath) ==
  /\ ~BackfillSkips(robot)
  /\ BackfillCandidate(robot.file, urdfPaths, normalizedPath) = NoPath

\* robots.map(...) turned into a filter that forgets what it cannot match
BackfillRobotsPruned(robots, urdfPaths, normalizedPath) ==
  LET Stays(robot) == ~BackfillMissing(robot, urdfPaths, normalizedPath)
      kept == SelectSeq(robots, Stays)
  IN  [i \in 1..Len(kept) |-> BackfillRobot(kept[i], urdfPaths, normalizedPath)]

BackfillRobots(robots, urdfPaths, normalizedPath) ==
  [i \in 1..Len(robots) |-> BackfillRobot(robots[i], urdfPaths, normalizedPath)]

BackfillMissingRecords(repoKey, robots, urdfPaths, normalizedPath) ==
  LET IsMissing(robot) == BackfillMissing(robot, urdfPaths, normalizedPath)
      lost == SelectSeq(robots, IsMissing)
  IN  [i \in 1..Len(lost) |->
         [repoKey |-> repoKey, file |-> lost[i].file, reason |-> NotFound]]

\* the loop over robots of refresh: matched references, in order
RefreshMatched(robots, urdfPaths, normalizedPath) ==
  LET Resolved(robot) ==
        /\ RawFile(robot.file) # NoPath
        /\ RefreshCandidate(robot.file, urdfPaths, normalizedPath) # NoPath
      kept == SelectSeq(robots, Resolved)
  IN  [i \in 1..Len(kept) |->
         [kept[i] EXCEPT !.file = RefreshCandidate(kept[i].file, urdfPaths, normalizedPath)]]

RefreshMissingRecords(repoKey, robots, urdfPaths, normalizedPath) ==
  LET IsMissing(robot) ==
        /\ RawFile(robot.file) # NoPath
        /\ RefreshCandidate(robot.file, urdfPaths, normalizedPath) = NoPath
      lost == SelectSeq(robots, IsMissing)
  IN  [i \in 1..Len(lost) |->
         [repoKey |-> repoKey, file |-> RawFile(lost[i].file), reason |-> NotFound]]

\* urdfPaths.filter(p => !matchedPaths.has(p.toLowerCase())).sort(localeCompare), as references
RefreshExtras(matched, urdfPaths) ==
  LET matchedPaths == {ToLower(matched[i].file) : i \in 1..Len(matched)}
      Unclaimed(p) == ToLower(p) \notin matchedPaths
      sortedExtra == SortBy(SelectSeq(urdfPaths, Unclaimed), "locale")
  IN  [i \in 1..Len(sortedExtra) |->
         [kind |-> "obj", file |-> sortedExtra[i],
          name |-> StripUrdf(Basename(sortedExtra[i])), fileBase |-> NoBase]]

RefreshRobots(robots, urdfPaths, normalizedPath) ==
  LET matched == RefreshMatched(robots, urdfPaths, normalizedPath)
  IN  matched \o RefreshExtras(matched, urdfPaths)

(***************************************************************************)
(* Preview keys and the collision map of backfill.                         *)
(***************************************************************************)
\* `${repoKey}::${toPreviewBase(file)}`
PreviewKey(repoKey, file) == [repoKey |-> repoKey, base |-> toPreviewBase(file)]

\* collisionMap.set(key, [...(collisionMap.get(key) || []), file]), in insertion order
CollisionAdd(map, key, file) ==
  IF \E i \in 1..Len(map) : map[i].key = key
    THEN [i \in 1..Len(map) |->
            IF map[i].key = key
              THEN [map[i] EXCEPT !.files = Append(map[i].files, file)]
              ELSE map[i]]
    ELSE Append(map, [key |-> key, files |-> <<file>>])

\* the loop over updatedRobots of a changed entry
CollisionAddAll(map, repoKey, robots) ==
  LET f[n \in 0..Len(robots)] ==
        IF n = 0 THEN map
        ELSE IF robots[n].file = NoPath THEN f[n - 1]
        ELSE CollisionAdd(f[n - 1], PreviewKey(repoKey, robots[n].file), robots[n].file)
  IN  f[Len(robots)]

PreviewKeysOf(repoKey, robots) ==
  {PreviewKey(repoKey, robots[i].file) : i \in {j \in 1..Len(robots) : robots[j].file # NoPath}}

\* the entries of collisionMap holding more than one file
Collisions(map) ==
  LET Clash(e) == Len(e.files) > 1
  IN  SelectSeq(map, Clash)

(***************************************************************************)
(* The fetch client: githubFetch around githubFetchOnce.  A reply is what  *)
(* one HTTP request ends with: status 0 stands for a transport error       *)
(* (request.on("error")), the two headers are given as the text the        *)
(* provider sent or NoHeader, and the body of a 200 parses or does not.    *)
(***************************************************************************)
MaxRetries == 2

\* the history of waits and the counters of the history are kept up to here
MaxNoted == MaxRetries + 2

Retryable == {429, 500, 502, 503, 504}

NoHeader == "absent"

Reply(status, remaining, reset, body) ==
  [status |-> status, remaining |-> remaining, reset |-> reset, body |-> body]

\* no reply received yet
NoReply == Reply(-1, NoHeader, NoHeader, "none")

Max(a, b) == IF a >= b THEN a ELSE b

\* Number(headers["x-ratelimit-remaining"] || ""), finite and === 0:
\* Number("") and Number("0") are 0, Number("1") is 1, Number("n/a") is NaN
RemainingIsZero(header) == header \in {NoHeader, "0"}

\* Number(headers["x-ratelimit-reset"] || "") is truthy: not 0 and not NaN
ResetIsSet(header) == header \in {"past", "future"}

\* reset * 1000 - Date.now(), for a reset time behind or ahead of the clock
ResetAhead(header) == IF header = "future" THEN 5000 ELSE 0 - 60000

\* githubFetchOnce: the parsed body, or the error it rejects with, where
\* statusCode 0 is an error without statusCode (error.statusCode || 0)
githubFetchOnce(reply) ==
  IF reply.status = 0
    THEN [ok |-> FALSE, statusCode |-> 0, remaining |-> NoHeader, reset |-> NoHeader,
          what |-> "transport"]
  ELSE IF reply.status # 200
    THEN [ok |-> FALSE, statusCode |-> reply.status, remaining |-> reply.remaining,
          reset |-> reply.reset, what |-> "status"]
  ELSE IF reply.body # "json"
    THEN [ok |-> FALSE, statusCode |-> 0, remaining |-> NoHeader, reset |-> NoHeader,
          what |-> "syntax"]
  ELSE [ok |-> TRUE, statusCode |-> 200, remaining |-> reply.remaining,
        reset |-> reply.reset, what |-> "body"]

\* status === 403 && Number.isFinite(remaining) && remaining === 0 && reset
IsRateLimit(error) ==
  /\ error.statusCode = 403
  /\ RemainingIsZero(error.remaining)
  /\ ResetIsSet(error.reset)

\* Math.max(reset * 1000 - Date.now() + 1000, retryDelayMs)
WaitMs(c, error) == Max(ResetAhead(error.reset) + 1000, c.retryDelayMs)

\* giving up on nothing that is retryable
GivesUpOnFinalOnly(c, status, attempt) == status \notin Retryable

\* !retryable || attempt > maxRetries
GivesUp(c, status, attempt) ==
  status \notin Retryable \/ attempt > c.maxRetries

\* the same delay before every retry
DelayFlat(c, attempt) == c.retryDelayMs

\* retryDelayMs * Math.pow(2, attempt - 1)
Delay(c, attempt) == c.retryDelayMs * 2^(attempt - 1)

Count(n) == IF n < MaxNoted THEN n + 1 ELSE n

Note(history, wait) == IF Len(history) < MaxNoted THEN Append(history, wait) ELSE history

\* attempt += 1.  The code compares attempt with maxRetries and uses it in
\* the delay only while it is at most maxRetries, so it is kept up to
\* maxRetries + 1.
NextAttempt(c) == IF c.attempt > c.maxRetries THEN c.attempt ELSE c.attempt + 1

\* one turn of the loop of githubFetch once the request has ended with reply:
\* return the body, or the catch block up to its sleep or its throw.  Of the
\* history, onlyRetryable says that every reply so far had a retryable status
\* and unstated that a wait for the rate limit followed a reply whose
\* remaining header was not "0".
Settle(c, reply) ==
  LET error == githubFetchOnce(reply)
      attempt == NextAttempt(c)
      heard == [c EXCEPT !.last = reply, !.replies = Count(@),
                         !.onlyRetryable = @ /\ reply.status \in Retryable]
  IN  IF error.ok THEN [heard EXCEPT !.pc = "returned"]
      ELSE IF IsRateLimit(error)
        THEN [heard EXCEPT !.pc = "rate-wait", !.attempt = attempt,
                           !.rateWaits = Count(@),
                           !.unstated = @ \/ reply.remaining # "0",
                           !.waits = Note(@, [kind |-> "rate", ms |-> WaitMs(c, error)])]
      ELSE IF GivesUp(c, error.statusCode, attempt)
        THEN [heard EXCEPT !.pc = "failed", !.attempt = attempt, !.error = error]
      ELSE [heard EXCEPT !.pc = "backoff", !.attempt = attempt,
                         !.backoffs = Count(@),
                         !.waits = Note(@, [kind |-> "backoff", ms |-> Delay(c, attempt)])]

NoError == [ok |-> TRUE, statusCode |-> 200, remaining |-> NoHeader, reset |-> NoHeader,
            what |-> "none"]

\* githubFetch(url) up to its first request: let attempt = 0, the request sent
NewClient(maxRetries, retryDelayMs) ==
  [maxRetries |-> maxRetries, retryDelayMs |-> retryDelayMs, pc |-> "requesting",
   attempt |-> 0, requests |-> 1, replies |-> 0, backoffs |-> 0, rateWaits |-> 0,
   waits |-> <<>>, last |-> NoReply, error |-> NoError, onlyRetryable |-> TRUE,
   unstated |-> FALSE]

\* no call of the fetch client under way; the flags at their defaults
IdleClient == [NewClient(3, 1000) EXCEPT !.pc = "idle"]

(***************************************************************************)
(* The run.  args are the command-line flags other than --write, provider  *)
(* is what the hosting API answers for each repository, run is the         *)
(* execution started with --write and dry the execution started without   *)
(* it on the same inputs and under the same schedule.  runNo counts the    *)
(* invocations of the tool and prior keeps what the first one left.        *)
(* matcher holds the result of one application of the path matcher,        *)
(* client the state of one call of the fetch client.                       *)
(***************************************************************************)
VARIABLES args, provider, run, dry, runNo, prior, matcher, client, deriver

vars == <<args, provider, run, dry, runNo, prior, matcher, client, deriver>>

NoFile == [none |-> TRUE]
NoEntry == 0

NewReport(mode, now) ==
  IF mode = "backfill"
    THEN [updated |-> 0, unchanged |-> 0, skipped |-> 0, missing |-> <<>>,
          truncated |-> <<>>, collisions |-> <<>>, previewKeys |-> {}]
    ELSE [generatedAt |-> now, removedRepos |-> <<>>, missingFiles |-> <<>>,
          truncated |-> <<>>, updatedRepos |-> <<>>]

\* the state of an execution before main() has read the catalog; input (the
\* files as the execution found them), outcome (the terminal state each entry
\* has reached) and writes (the files written so far, in order) record the
\* history of the execution
FreshRun(write, disk) ==
  [write |-> write, pc |-> "start", disk |-> disk, input |-> disk, robotsJson |-> <<>>,
   queue |-> <<>>, results |-> <<>>, report |-> [none |-> TRUE],
   previewKeySet |-> {}, collisionMap |-> <<>>, workers |-> <<>>,
   outcome |-> <<>>, writes |-> <<>>]

Idle == [pc |-> "loop", entry |-> NoEntry, ret |-> "none"]

\* robotsJson.filter(...): the indices of the entries that pass
Eligible(robotsJson) ==
  LET Passes(i) ==
        LET repoKey == normalizeRepoKey(RepoOrKey(robotsJson[i]))
        IN  /\ repoKey # NoKey
            /\ (args.only # {} => repoKey \in args.only)
      all == [i \in 1..Len(robotsJson) |-> i]
  IN  SelectSeq(all, Passes)

\* entries.slice(0, limit) whatever the limit
LimitedEntriesAlways(entries) ==
  SubSeq(entries, 1, IF args.limit < 0 THEN 0
                     ELSE IF args.limit < Len(entries) THEN args.limit ELSE Len(entries))

\* limit > 0 ? entries.slice(0, limit) : entries
LimitedEntries(entries) ==
  IF args.limit > 0
    THEN SubSeq(entries, 1, IF args.limit < Len(entries) THEN args.limit ELSE Len(entries))
    ELSE entries

\* report.skipped += 1 (backfill); return { keep: true } (refresh)
SkipEntry(r, w) ==
  IF args.mode = "backfill"
    THEN [r EXCEPT !.report.skipped = @ + 1, !.workers[w] = Idle,
                   !.outcome[r.workers[w].entry] = "skipped"]
    ELSE [r EXCEPT !.workers[w] = [Idle EXCEPT !.entry = r.workers[w].entry, !.ret = "keep"],
                   !.outcome[r.workers[w].entry] = "skipped"]

\* a fetch failure that also drops what is left of the queue
FetchFailedFatal(r, w, repoKey, what) ==
  LET record == [repoKey |-> repoKey, reason |-> what]
  IN  IF args.mode = "backfill"
        THEN [r EXCEPT !.report.skipped = @ + 1,
                       !.report.missing = Append(@, record),
                       !.outcome[r.workers[w].entry] = "fetch-failed",
                       !.queue = <<>>,
                       !.workers[w] = Idle]
        ELSE [r EXCEPT !.report.missingFiles = Append(@, record),
                       !.outcome[r.workers[w].entry] = "fetch-failed",
                       !.queue = <<>>,
                       !.workers[w] = [Idle EXCEPT !.entry = r.workers[w].entry,
                                                   !.ret = "keep"]]

\* a failed fetch: the record pushed by the catch block, then the entry is left
FetchFailed(r, w, repoKey, what) ==
  LET record == [repoKey |-> repoKey, reason |-> what]
  IN  IF args.mode = "backfill"
        THEN [r EXCEPT !.report.skipped = @ + 1,
                       !.report.missing = Append(@, record),
                       !.outcome[r.workers[w].entry] = "fetch-failed",
                       !.workers[w] = Idle]
        ELSE [r EXCEPT !.report.missingFiles = Append(@, record),
                       !.outcome[r.workers[w].entry] = "fetch-failed",
                       !.workers[w] = [Idle EXCEPT !.entry = r.workers[w].entry,
                                                   !.ret = "keep"]]

\* results.push({ entry, ...(await processEntry(entry)) }), when the await resumes
PushResult(r, w) ==
  IF r.workers[w].ret = "none" THEN r
  ELSE [r EXCEPT !.results = Append(@, [entry |-> r.workers[w].entry,
                                         keep |-> r.workers[w].ret = "keep"]),
                 !.workers[w] = Idle]

\* one turn of a worker's while loop, up to the first await of processEntry
LoopSegment(r0, w) ==
  LET r == PushResult(r0, w)
  IN  IF r.queue = <<>> THEN [r EXCEPT !.workers[w].pc = "done"]
      ELSE LET idx == Head(r.queue)
               entry == r.robotsJson[idx]
               taken == [r EXCEPT !.queue = Tail(@), !.workers[w].entry = idx]
           IN  IF normalizeRepoKey(RepoOrKey(entry)) = NoKey THEN SkipEntry(taken, w)
               ELSE IF parseRepo(entry.repo).none THEN SkipEntry(taken, w)
               ELSE [taken EXCEPT !.workers[w].pc = "repo"]

\* the answer of the hosting API for the repository of an entry
Response(entry) == provider[<<parseRepo(entry.repo).owner, parseRepo(entry.repo).repo>>]

\* processEntry after the repository metadata request has settled
\* processEntry throws outside its two try blocks: the worker's promise and
\* with it Promise.all(workers) and main() reject, the other workers go on
Throws(r, w) ==
  [r EXCEPT !.outcome[r.workers[w].entry] = "threw", !.workers[w].pc = "threw"]

\* the repository request settles; a body that parses to null makes
\* repoData.default_branch throw a TypeError
RepoSegment(r, w) ==
  LET entry == r.robotsJson[r.workers[w].entry]
      repoKey == normalizeRepoKey(RepoOrKey(entry))
  IN  IF Response(entry).meta = "fail"
        THEN FetchFailed(r, w, repoKey, "repo fetch failed")
      ELSE IF Response(entry).meta = "null" THEN Throws(r, w)
      ELSE [r EXCEPT !.workers[w].pc = "tree"]

\* the candidate index of an entry: urdfPaths
EntryUrdfPaths(entry, tree) ==
  UrdfPaths(NormalizedTreePaths(TreePaths(tree), NormalizedPath(entry)))

\* backfill: the end of processEntry, given the candidate index and the mapped references
BackfillApply(r, w, urdfPaths, updatedRobots) ==
  LET idx == r.workers[w].entry
      entry == r.robotsJson[idx]
      repoKey == normalizeRepoKey(RepoOrKey(entry))
      changed == updatedRobots # entry.robots
      noted == [r EXCEPT !.report.missing =
                  @ \o BackfillMissingRecords(repoKey, entry.robots, urdfPaths,
                                              NormalizedPath(entry)),
                         !.outcome[idx] = "reconciled",
                         !.workers[w] = Idle]
  IN  IF changed
        THEN [noted EXCEPT !.robotsJson[idx].robots = updatedRobots,
                           !.report.updated = @ + 1,
                           !.previewKeySet = @ \cup PreviewKeysOf(repoKey, updatedRobots),
                           !.collisionMap = CollisionAddAll(@, repoKey, updatedRobots)]
        ELSE [noted EXCEPT !.report.unchanged = @ + 1]

\* backfill: processEntry from the truncation check to its end (the set binders
\* only name the candidate index and the mapped references once)
BackfillReconcile(r, w, treeData) ==
  LET idx == r.workers[w].entry
      entry == r.robotsJson[idx]
      repoKey == normalizeRepoKey(RepoOrKey(entry))
  IN  IF treeData.truncated
        THEN [r EXCEPT !.report.truncated = Append(@, repoKey),
                       !.report.skipped = @ + 1,
                       !.outcome[idx] = "truncated",
                       !.workers[w] = Idle]
        ELSE CHOOSE next \in
               UNION {{BackfillApply(r, w, urdfPaths, updatedRobots) :
                         updatedRobots \in
                           {BackfillRobots(entry.robots, urdfPaths, NormalizedPath(entry))}} :
                      urdfPaths \in {EntryUrdfPaths(entry, treeData.tree)}} : TRUE

\* RefreshApply removing an entry only when it has no references either
RefreshApplySparing(r, w, urdfPaths, updatedRobots) ==
  LET idx == r.workers[w].entry
      entry == r.robotsJson[idx]
      repoKey == normalizeRepoKey(RepoOrKey(entry))
      returns(ret) == [Idle EXCEPT !.entry = idx, !.ret = ret]
  IN  IF urdfPaths = <<>> /\ entry.robots = <<>>
        THEN [r EXCEPT !.report.removedRepos = Append(@, repoKey),
                       !.outcome[idx] = "removed",
                       !.workers[w] = returns("drop")]
        ELSE [r EXCEPT !.report.missingFiles =
                         @ \o RefreshMissingRecords(repoKey, entry.robots, urdfPaths,
                                                    NormalizedPath(entry)),
                       !.robotsJson[idx].robots = updatedRobots,
                       !.report.updatedRepos = Append(@, repoKey),
                       !.outcome[idx] = "reconciled",
                       !.workers[w] = returns("keep")]

\* refresh: the end of processEntry, given the candidate index and the new reference list
RefreshApply(r, w, urdfPaths, updatedRobots) ==
  LET idx == r.workers[w].entry
      entry == r.robotsJson[idx]
      repoKey == normalizeRepoKey(RepoOrKey(entry))
      returns(ret) == [Idle EXCEPT !.entry = idx, !.ret = ret]
  IN  IF urdfPaths = <<>>
        THEN [r EXCEPT !.report.removedRepos = Append(@, repoKey),
                       !.outcome[idx] = "removed",
                       !.workers[w] = returns("drop")]
        ELSE [r EXCEPT !.report.missingFiles =
                         @ \o RefreshMissingRecords(repoKey, entry.robots, urdfPaths,
                                                    NormalizedPath(entry)),
                       !.robotsJson[idx].robots = updatedRobots,
                       !.report.updatedRepos = Append(@, repoKey),
                       !.outcome[idx] = "reconciled",
                       !.workers[w] = returns("keep")]

\* refresh: processEntry from the truncation check to its end
RefreshReconcile(r, w, treeData) ==
  LET idx == r.workers[w].entry
      entry == r.robotsJson[idx]
      repoKey == normalizeRepoKey(RepoOrKey(entry))
  IN  IF treeData.truncated
        THEN [r EXCEPT !.report.truncated = Append(@, repoKey),
                       !.outcome[idx] = "truncated",
                       !.workers[w] = [Idle EXCEPT !.entry = idx, !.ret = "keep"]]
        ELSE CHOOSE next \in
               UNION {{RefreshApply(r, w, urdfPaths, updatedRobots) :
                         updatedRobots \in
                           {RefreshRobots(entry.robots, urdfPaths, NormalizedPath(entry))}} :
                      urdfPaths \in {EntryUrdfPaths(entry, treeData.tree)}} : TRUE

\* TreeSegment without the check of treeData.truncated
TreeSegmentTrusting(r, w) ==
  LET entry == r.robotsJson[r.workers[w].entry]
      repoKey == normalizeRepoKey(RepoOrKey(entry))
      answer == Response(entry)
      treeData == [truncated |-> FALSE, tree |-> answer.tree]
  IN  IF answer.fetch = "fail" THEN FetchFailed(r, w, repoKey, "tree fetch failed")
      ELSE IF answer.fetch = "null" THEN Throws(r, w)
      ELSE IF args.mode = "backfill" THEN BackfillReconcile(r, w, treeData)
      ELSE RefreshReconcile(r, w, treeData)

\* processEntry after the tree request has settled; a body that parses to null
\* makes treeData.truncated throw a TypeError
TreeSegment(r, w) ==
  LET entry == r.robotsJson[r.workers[w].entry]
      repoKey == normalizeRepoKey(RepoOrKey(entry))
      answer == Response(entry)
      treeData == [truncated |-> answer.truncated, tree |-> answer.tree]
  IN  IF answer.fetch = "fail" THEN FetchFailed(r, w, repoKey, "tree fetch failed")
      ELSE IF answer.fetch = "null" THEN Throws(r, w)
      ELSE IF args.mode = "backfill" THEN BackfillReconcile(r, w, treeData)
      ELSE RefreshReconcile(r, w, treeData)

\* main() from the catalog read to the creation of the workers: each worker
\* runs its first turn, in order, before any request settles
StartRun(r) ==
  LET robotsJson == r.disk.robots
      loaded == [r EXCEPT !.robotsJson = robotsJson,
                          !.report = NewReport(args.mode, runNo),
                          !.queue = LimitedEntries(Eligible(robotsJson)),
                          !.workers = [w \in 1..args.concurrency |-> Idle],
                          !.outcome = [i \in 1..Len(robotsJson) |->
                                         IF i \in Range(LimitedEntries(Eligible(robotsJson)))
                                           THEN "pending" ELSE "not-dispatched"],
                          !.pc = "workers"]
      f[n \in 0..args.concurrency] ==
        IF n = 0 THEN loaded ELSE LoopSegment(f[n - 1], n)
  IN  f[args.concurrency]

AllDone(r) == \A w \in DOMAIN r.workers : r.workers[w].pc = "done"

\* results.filter(r => r.keep).map(r => r.entry), robotsJson.filter(entry => keepSet.has(entry))
Refreshed(r) ==
  LET keepSet == {r.results[i].entry : i \in {j \in 1..Len(r.results) : r.results[j].keep}}
      Kept(i) == i \in keepSet
      idxs == SelectSeq([i \in 1..Len(r.robotsJson) |-> i], Kept)
  IN  [i \in 1..Len(idxs) |-> r.robotsJson[idxs[i]]]

\* FinalReport filling collisions and previewKeys only when committing
FinalReportOfCommit(r) ==
  IF args.mode = "backfill" /\ r.write
    THEN [r.report EXCEPT !.collisions = Collisions(r.collisionMap),
                          !.previewKeys = r.previewKeySet]
    ELSE r.report

\* the report as serialized: backfill fills collisions and previewKeys first
FinalReport(r) ==
  IF args.mode = "backfill"
    THEN [r.report EXCEPT !.collisions = Collisions(r.collisionMap),
                          !.previewKeys = r.previewKeySet]
    ELSE r.report

\* WriteReport going on to the catalog whether or not --write was given
WriteReportCommitting(r, ok) ==
  IF ~(r.pc = "workers" /\ AllDone(r)) THEN r
  ELSE IF ~ok THEN [r EXCEPT !.report = FinalReport(r), !.pc = "failed"]
  ELSE [r EXCEPT !.report = FinalReport(r),
                 !.disk.report = FinalReport(r),
                 !.writes = Append(@, "report"),
                 !.pc = IF args.mode = "backfill" THEN "keys" ELSE "catalog"]

\* WriteReport catching a failed write and carrying on
WriteReportSwallowing(r, ok) ==
  IF ~(r.pc = "workers" /\ AllDone(r)) THEN r
  ELSE [r EXCEPT !.report = FinalReport(r),
                 !.disk.report = IF ok THEN FinalReport(r) ELSE @,
                 !.writes = IF ok THEN Append(@, "report") ELSE @,
                 !.pc = IF args.mode = "backfill" THEN "keys"
                        ELSE IF r.write THEN "catalog" ELSE "done"]

\* await fs.writeFile(reportPath, ...), succeeding or throwing
WriteReport(r, ok) ==
  IF ~(r.pc = "workers" /\ AllDone(r)) THEN r
  ELSE IF ~ok THEN [r EXCEPT !.report = FinalReport(r), !.pc = "failed"]
  ELSE [r EXCEPT !.report = FinalReport(r),
                 !.disk.report = FinalReport(r),
                 !.writes = Append(@, "report"),
                 !.pc = IF args.mode = "backfill" THEN "keys"
                        ELSE IF r.write THEN "catalog" ELSE "done"]

\* await fs.writeFile(previewKeysPath, ...)   (backfill)
WriteKeys(r, ok) ==
  IF r.pc # "keys" THEN r
  ELSE IF ~ok THEN [r EXCEPT !.pc = "failed"]
  ELSE [r EXCEPT !.disk.keys = r.report.previewKeys,
                 !.writes = Append(@, "keys"),
                 !.pc = IF r.write THEN "catalog" ELSE "done"]

\* await fs.writeFile(ROBOTS_PATH, ...)
WriteCatalog(r, ok) ==
  IF r.pc # "catalog" THEN r
  ELSE IF ~ok THEN [r EXCEPT !.pc = "failed"]
  ELSE [r EXCEPT !.disk.robots = IF args.mode = "backfill" THEN r.robotsJson
                                  ELSE Refreshed(r),
                 !.writes = Append(@, "robots"),
                 !.pc = "meta"]

\* await fs.writeFile(metaPath, ...)
WriteMeta(r, ok) ==
  IF r.pc # "meta" THEN r
  ELSE IF ~ok THEN [r EXCEPT !.pc = "failed"]
  ELSE [r EXCEPT !.disk.meta =
                   [version |-> 1, generatedAt |-> runNo,
                    count |-> IF args.mode = "backfill" THEN Len(r.robotsJson)
                              ELSE Len(Refreshed(r))],
                 !.writes = Append(@, "meta"),
                 !.pc = "done"]

(***************************************************************************)
(* Inputs: file paths, tree responses, catalogs and flags.                 *)
(***************************************************************************)
Arm == <<"a", "r", "m">>
Leg == <<"l", "e", "g">>
LegUpper == <<"L", "E", "G">>
UrdfDir == <<"u", "r", "d", "f">>
So100 == <<"s", "o", "1", "0", "0">>
Gone == <<"g", "o", "n", "e">>
Sl == <<"/">>

ArmSo100 == Arm \o Sl \o UrdfDir \o Sl \o So100 \o DotUrdf
LegSo100 == Leg \o Sl \o UrdfDir \o Sl \o So100 \o DotUrdf
LegUpperSo100 == LegUpper \o Sl \o UrdfDir \o Sl \o So100 \o DotUrdf
Readme == <<"R", "E", "A", "D", "M", "E", ".", "m", "d">>
BareSo100 == So100 \o DotUrdf
GoneUrdf == Gone \o DotUrdf
BackslashLeg == <<"\\">> \o Leg \o <<"\\">> \o UrdfDir \o <<"\\">> \o So100 \o DotUrdf

Blob(path) == [path |-> path, type |-> "blob"]
Dir(path) == [path |-> path, type |-> "tree"]

\* blobs, one of them not a description file, and a directory named like one
Nodes ==
  {Blob(LegSo100), Blob(LegUpperSo100), Blob(Readme), Dir(GoneUrdf)}

\* sequences of distinct elements of S, of length at most n
RECURSIVE DistinctSeqs(_, _)
DistinctSeqs(S, n) ==
  IF n = 0 THEN {<<>>}
  ELSE LET shorter == DistinctSeqs(S, n - 1)
       IN  shorter \cup {Append(q, x) : <<q, x>> \in
                           {<<q, x>> \in shorter \X S : Len(q) = n - 1 /\ x \notin Range(q)}}

Trees == DistinctSeqs(Nodes, MaxTree)

Ref(kind, file) == [kind |-> kind, file |-> file, name |-> NoPath, fileBase |-> NoBase]

Refs ==
  {Ref("obj", BareSo100), Ref("obj", GoneUrdf), Ref("str", BackslashLeg)}

RefLists == DistinctSeqs(Refs, MaxRefs)

ScopedPaths == {NoPath, Sl \o LegUpper \o Sl}

Listing(tree) == [meta |-> "ok", fetch |-> "ok", truncated |-> FALSE, tree |-> tree]

Failures ==
  {[meta |-> "fail", fetch |-> "fail", truncated |-> FALSE, tree |-> <<>>],
   [meta |-> "ok", fetch |-> "fail", truncated |-> FALSE, tree |-> <<>>],
   [meta |-> "ok", fetch |-> "ok", truncated |-> TRUE, tree |-> <<Blob(Readme)>>]}

Answers == Failures \cup {Listing(t) : t \in Trees}

PlainAnswers ==
  {a \in Failures : a.fetch = a.meta} \cup {Listing(<<Blob(Readme)>>), Listing(<<Blob(ArmSo100)>>)}

AcmeRepo == <<"Acme", "so100">>
BetaRepo == <<"beta", "arm">>

AcmeEntry(path, robots) ==
  [repo |-> RepoUrl("Acme", "so100"), repoKey |-> RepoKeyText("acme", "so100"),
   path |-> path, robots |-> robots]

BetaEntry ==
  [repo |-> RepoUrl("beta", "arm"), repoKey |-> RepoKeyText("beta", "arm"),
   path |-> NoPath, robots |-> <<Ref("obj", BareSo100)>>]

\* an entry with neither repo nor repoKey, and one with a repoKey only
BlankEntry == [repo |-> NoRepo, repoKey |-> NoRepo, path |-> NoPath, robots |-> <<>>]
KeyOnlyEntry ==
  [repo |-> NoRepo, repoKey |-> RepoKeyText("gamma", "hand"), path |-> NoPath,
   robots |-> <<Ref("obj", BareSo100)>>]

AcmeKey == <<"acme", "so100">>

Flags(mode, only, limit, concurrency) ==
  [mode |-> mode, only |-> only, limit |-> limit, concurrency |-> concurrency]

Modes == {"backfill", "refresh"}

Disk(catalog) == [robots |-> catalog, meta |-> NoFile, report |-> NoFile, keys |-> NoFile]

\* catalogs and trees in full, flags plain
InitMatching ==
  /\ \E mode \in Modes : args = Flags(mode, {}, 0, 1)
  /\ \E a \in Answers, b \in {Listing(<<Blob(ArmSo100)>>)} :
       provider = [k \in {AcmeRepo, BetaRepo} |-> IF k = AcmeRepo THEN a ELSE b]
  /\ \E path \in ScopedPaths, robots \in RefLists :
       /\ run = FreshRun(TRUE, Disk(<<AcmeEntry(path, robots), BetaEntry>>))
       /\ dry = FreshRun(FALSE, Disk(<<AcmeEntry(path, robots), BetaEntry>>))

\* flags and outcomes in full, catalogs plain
InitScheduling ==
  /\ \E mode \in Modes, only \in {{}, {AcmeKey}}, limit \in 0..MaxLimit,
        concurrency \in 1..MaxWorkers :
       args = Flags(mode, only, limit, concurrency)
  /\ \E a \in PlainAnswers, b \in PlainAnswers :
       provider = [k \in {AcmeRepo, BetaRepo} |-> IF k = AcmeRepo THEN a ELSE b]
  /\ \E last \in {BlankEntry, KeyOnlyEntry} :
       LET catalog == <<BetaEntry, AcmeEntry(NoPath, <<Ref("obj", BareSo100)>>), last>>
       IN  /\ run = FreshRun(TRUE, Disk(catalog))
           /\ dry = FreshRun(FALSE, Disk(catalog))

NoMatch == [pc |-> "ready", result |-> NoPath, refresh |-> NoPath]

\* two paths given to toPreviewBase, and what it returned: for the first path
\* (first), for the first path once more (again), for the second path (second)
Deriving(path, other) ==
  [pc |-> "ready", path |-> path, other |-> other,
   first |-> NoBase, again |-> NoBase, second |-> NoBase]

NoDerive == Deriving(NoPath, NoPath)

Init ==
  /\ InitMatching \/ InitScheduling
  /\ runNo = 1
  /\ prior = [none |-> TRUE]
  /\ matcher = NoMatch
  /\ deriver = NoDerive
  /\ client = IdleClient

(***************************************************************************)
(* Actions.  Every step is taken by both executions together.              *)
(***************************************************************************)
Start ==
  /\ run.pc = "start"
  /\ run' = StartRun(run)
  /\ dry' = StartRun(dry)
  /\ UNCHANGED <<args, provider, runNo, prior, matcher, client, deriver>>

WorkerAt(r, w, pc) == r.pc = "workers" /\ w \in DOMAIN r.workers /\ r.workers[w].pc = pc

\* a worker's await of processEntry resumes and it turns its loop again
WorkerTurn(w) ==
  /\ WorkerAt(run, w, "loop")
  /\ run' = LoopSegment(run, w)
  /\ dry' = IF WorkerAt(dry, w, "loop") THEN LoopSegment(dry, w) ELSE dry
  /\ UNCHANGED <<args, provider, runNo, prior, matcher, client, deriver>>

\* the repository metadata request of worker w settles
RepoSettles(w) ==
  /\ WorkerAt(run, w, "repo")
  /\ run' = RepoSegment(run, w)
  /\ dry' = IF WorkerAt(dry, w, "repo") THEN RepoSegment(dry, w) ELSE dry
  /\ UNCHANGED <<args, provider, runNo, prior, matcher, client, deriver>>

\* the tree request of worker w settles
TreeSettles(w) ==
  /\ WorkerAt(run, w, "tree")
  /\ run' = TreeSegment(run, w)
  /\ dry' = IF WorkerAt(dry, w, "tree") THEN TreeSegment(dry, w) ELSE dry
  /\ UNCHANGED <<args, provider, runNo, prior, matcher, client, deriver>>

ReportWritten(ok) ==
  /\ run.pc = "workers" /\ AllDone(run)
  /\ run' = WriteReport(run, ok)
  /\ dry' = WriteReport(dry, ok)
  /\ UNCHANGED <<args, provider, runNo, prior, matcher, client, deriver>>

KeysWritten(ok) ==
  /\ run.pc = "keys"
  /\ run' = WriteKeys(run, ok)
  /\ dry' = WriteKeys(dry, ok)
  /\ UNCHANGED <<args, provider, runNo, prior, matcher, client, deriver>>

CatalogWritten(ok) ==
  /\ run.pc = "catalog" \/ dry.pc = "catalog"
  /\ run' = WriteCatalog(run, ok)
  /\ dry' = WriteCatalog(dry, ok)
  /\ UNCHANGED <<args, provider, runNo, prior, matcher, client, deriver>>

MetaWritten(ok) ==
  /\ run.pc = "meta" \/ dry.pc = "meta"
  /\ run' = WriteMeta(run, ok)
  /\ dry' = WriteMeta(dry, ok)
  /\ UNCHANGED <<args, provider, runNo, prior, matcher, client, deriver>>

\* the tool is invoked again on what the committed execution left on disk
Rerun ==
  /\ runNo = 1
  /\ run.pc = "done"
  /\ runNo' = 2
  /\ prior' = [none |-> FALSE, disk |-> run.disk, report |-> run.report,
               loaded |-> run.robotsJson]
  /\ run' = FreshRun(TRUE, run.disk)
  /\ dry' = FreshRun(FALSE, run.disk)
  /\ UNCHANGED <<args, provider, matcher, client, deriver>>

Next ==
  \/ Start
  \/ \E w \in 1..MaxWorkers : WorkerTurn(w)
  \/ \E w \in 1..MaxWorkers : RepoSettles(w)
  \/ \E w \in 1..MaxWorkers : TreeSettles(w)
  \/ \E ok \in BOOLEAN : ReportWritten(ok)
  \/ \E ok \in BOOLEAN : KeysWritten(ok)
  \/ \E ok \in BOOLEAN : CatalogWritten(ok)
  \/ \E ok \in BOOLEAN : MetaWritten(ok)
  \/ Rerun

Spec == Init /\ [][Next]_vars

(***************************************************************************)
(* Properties of the runs.                                                 *)
(***************************************************************************)
KeyOf(entry) == normalizeRepoKey(RepoOrKey(entry))

Committed(r) == "robots" \in Range(r.writes)

\* entries whose tree request has settled with a listing
Listed(r, idx) ==
  /\ idx \in DOMAIN r.outcome
  /\ r.outcome[idx] \notin {"pending", "not-dispatched", "skipped"}
  /\ Response(r.input.robots[idx]).meta = "ok"
  /\ Response(r.input.robots[idx]).fetch = "ok"

\* the records of unresolved references and failed requests in the report
MissingRecords(r) ==
  IF args.mode = "backfill" THEN Range(r.report.missing) ELSE Range(r.report.missingFiles)

\* C1: an execution started without --write never writes robots.json nor
\* robots.meta.json, whatever the provider answers: only the report and the
\* key list are among its writes, and both files stay as it found them.
DryRunNeverCommits ==
  /\ Range(dry.writes) \subseteq {"report", "keys"}
  /\ dry.disk.robots = dry.input.robots
  /\ dry.disk.meta = dry.input.meta

\* a finished dry run that wrote its report while its committing twin changed the catalog
DryRunFinished ==
  /\ dry.pc = "done"
  /\ "report" \in Range(dry.writes)
  /\ Committed(run)
  /\ run.disk.robots # run.input.robots
  /\ dry.disk.robots = dry.input.robots

IsArtifact(name) == name \in {"report", "keys"}

TruncatedLeftAlone ==
  \A idx \in DOMAIN run.outcome :
    LET entry == run.input.robots[idx]
    IN  (Listed(run, idx) /\ Response(entry).truncated) =>
          /\ run.robotsJson[idx] = entry
          /\ KeyOf(entry) \in Range(run.report.truncated)
          /\ \A rec \in MissingRecords(run) : rec.repoKey # KeyOf(entry)
          /\ args.mode = "refresh" => KeyOf(entry) \notin Range(run.report.removedRepos)
          /\ Committed(run) => entry \in Range(run.disk.robots)

\* a committed refresh in which an entry with references had a truncated listing
TruncatedCommitted ==
  /\ args.mode = "refresh"
  /\ Committed(run)
  /\ \E idx \in DOMAIN run.outcome :
       /\ Listed(run, idx)
       /\ Response(run.input.robots[idx]).truncated
       /\ run.input.robots[idx].robots # <<>>

NoUrdfBlob(tree) ==
  \A i \in 1..Len(tree) : tree[i].type = "blob" => ~IsUrdf(tree[i].path)

\* C5: in refresh, a dispatched entry whose complete listing holds no blob
\* ending in .urdf is in removedRepos and, once the catalog is committed,
\* absent from it, whatever its references are.
NoUrdfRemoved ==
  args.mode = "refresh" =>
    \A idx \in DOMAIN run.outcome :
      LET entry == run.input.robots[idx]
      IN  (/\ Listed(run, idx)
           /\ ~Response(entry).truncated
           /\ NoUrdfBlob(Response(entry).tree)) =>
            /\ KeyOf(entry) \in Range(run.report.removedRepos)
            /\ Committed(run) =>
                 \A e \in Range(run.disk.robots) : KeyOf(e) # KeyOf(entry)

\* a committed refresh that removed an entry with two references
RemovedCommitted ==
  /\ args.mode = "refresh"
  /\ Committed(run)
  /\ \E idx \in DOMAIN run.outcome :
       /\ Listed(run, idx)
       /\ ~Response(run.input.robots[idx]).truncated
       /\ NoUrdfBlob(Response(run.input.robots[idx]).tree)
       /\ Len(run.input.robots[idx].robots) = 2

\* C6: in a committed refresh every entry of the input catalog that is absent
\* from the committed catalog has its repoKey in removedRepos; an entry left
\* out by --only, by --limit or by an empty repoKey is in the committed
\* catalog unchanged; the count in robots.meta.json is the number of entries kept.
RefreshKeepsUnprocessed ==
  (args.mode = "refresh" /\ Committed(run)) =>
    /\ \A idx \in DOMAIN run.input.robots :
         LET entry == run.input.robots[idx]
         IN  /\ (\A e \in Range(run.disk.robots) :
                   e.repo # entry.repo \/ e.repoKey # entry.repoKey) =>
                  KeyOf(entry) \in Range(run.report.removedRepos)
             /\ run.outcome[idx] = "not-dispatched" => entry \in Range(run.disk.robots)
    /\ "meta" \in Range(run.writes) => run.disk.meta.count = Len(run.disk.robots)

\* C7: a second committing backfill on what the first one wrote, against the
\* same trees, counts no entry as updated, rewrites no reference and writes
\* the catalog the first one wrote.
BackfillIdempotent ==
  (args.mode = "backfill" /\ runNo = 2 /\ run.pc = "done") =>
    /\ run.report.updated = 0
    /\ run.robotsJson = prior.disk.robots
    /\ run.disk.robots = prior.disk.robots

\* the entries and references of catalog b are those of catalog a, in the same
\* places, except for file values that are now candidates of the entry's tree
SameShape(a, b) ==
  /\ Len(b) = Len(a)
  /\ \A i \in 1..Len(a) :
       /\ [b[i] EXCEPT !.robots = a[i].robots] = a[i]
       /\ Len(b[i].robots) = Len(a[i].robots)
       /\ \A j \in 1..Len(a[i].robots) :
            /\ [b[i].robots[j] EXCEPT !.file = a[i].robots[j].file] = a[i].robots[j]
            /\ b[i].robots[j].file # a[i].robots[j].file =>
                 b[i].robots[j].file \in
                   Range(EntryUrdfPaths(a[i], Response(a[i]).tree))

\* C8: backfill never adds or deletes a reference and never drops an entry:
\* in memory and on disk the catalog keeps its entries in order and each
\* entry its references in place; only the file of a matched reference differs.
BackfillKeepsShape ==
  args.mode = "backfill" =>
    /\ SameShape(run.input.robots, run.disk.robots)
    /\ run.pc # "start" => SameShape(run.input.robots, run.robotsJson)

\* a committed backfill that rewrote a reference of an entry with two references
BackfillRewrote ==
  /\ args.mode = "backfill"
  /\ Committed(run)
  /\ \E idx \in DOMAIN run.input.robots :
       /\ Len(run.input.robots[idx].robots) = 2
       /\ run.disk.robots[idx] # run.input.robots[idx]
       /\ \E rec \in MissingRecords(run) : rec.repoKey = KeyOf(run.input.robots[idx])

\* C9: in refresh, a reference reported as "not found in tree" is still among
\* the references of its entry after the entry has been reconciled.
RefreshKeepsUnresolved ==
  args.mode = "refresh" =>
    \A idx \in DOMAIN run.outcome :
      run.outcome[idx] = "reconciled" =>
        \A j \in 1..Len(run.input.robots[idx].robots) :
          LET ref == run.input.robots[idx].robots[j]
              reported == [repoKey |-> KeyOf(run.input.robots[idx]),
                           file |-> RawFile(ref.file), reason |-> NotFound]
          IN  reported \in MissingRecords(run) =>
                \E k \in 1..Len(run.robotsJson[idx].robots) :
                  run.robotsJson[idx].robots[k].file = ref.file

\* the references of a reconciled entry from position n + 1 on are exactly the
\* description files of the tree that no reference before them was resolved
\* to, each once, in the order of localeCompare, named by their basename
\* without the extension
ExtrasFrom(new, n, urdf) ==
  /\ \A i \in (n + 1)..Len(new) :
       new[i] = [kind |-> "obj", file |-> new[i].file,
                 name |-> StripUrdf(Basename(new[i].file)), fileBase |-> NoBase]
  /\ {new[i].file : i \in (n + 1)..Len(new)} = urdf \ {new[i].file : i \in 1..n}
  /\ \A i, j \in (n + 1)..Len(new) :
       i < j => LocaleCompare(new[i].file, new[j].file) < 0

\* the first n references are references of old in their order, file rewritten
KeptInOrder(new, n, old) ==
  \E f \in [1..n -> DOMAIN old] :
    /\ \A i, j \in 1..n : i < j => f[i] < f[j]
    /\ \A i \in 1..n : [new[i] EXCEPT !.file = old[f[i]].file] = old[f[i]]

\* C14: in refresh mode the references of a reconciled entry are pre-existing
\* references in their relative order followed by one new reference (file the
\* full path, name the basename without extension) for every description
\* file of the tree that no successful match resolved to, in path order.
RefreshAppendsUnclaimed ==
  args.mode = "refresh" =>
    \A idx \in DOMAIN run.outcome :
      run.outcome[idx] = "reconciled" =>
        LET entry == run.input.robots[idx]
            new == run.robotsJson[idx].robots
            urdf == Range(EntryUrdfPaths(entry, Response(entry).tree))
        IN  \E n \in 0..Len(new) :
              /\ KeptInOrder(new, n, entry.robots)
              /\ ExtrasFrom(new, n, urdf)

\* the entry was taken from the queue and one of its two requests failed
GaveUp(r, idx) ==
  /\ idx \in DOMAIN r.outcome
  /\ r.outcome[idx] \notin {"pending", "not-dispatched", "skipped"}
  /\ \/ Response(r.input.robots[idx]).meta = "fail"
     \/ Response(r.input.robots[idx]).fetch = "fail"

\* the workers have all left their loops
WorkersOver(r) == r.pc \notin {"start", "workers"} \/ (r.pc = "workers" /\ AllDone(r))

MaxMatchTree == 3

ShortSo100 == <<"z">> \o Sl \o <<"S", "O", "1", "0", "0">> \o DotUrdf
ArmGone == Arm \o Sl \o GoneUrdf

MatchNodes ==
  {Blob(ArmSo100), Blob(LegSo100), Blob(LegUpperSo100), Blob(ShortSo100),
   Blob(ArmGone), Blob(Readme)}

MatchFiles == {BareSo100, BackslashLeg, GoneUrdf}

MatchScopes == {NoPath, Sl \o LegUpper \o Sl, Arm, Leg}

InitMatch ==
  /\ args = Flags("backfill", {}, 0, 1)
  /\ \E tree \in DistinctSeqs(MatchNodes, MaxMatchTree) :
       provider = [k \in {AcmeRepo, BetaRepo} |->
                     [meta |-> "ok", fetch |-> "ok", truncated |-> FALSE, tree |-> tree]]
  /\ \E path \in MatchScopes, file \in MatchFiles :
       /\ run = FreshRun(TRUE, Disk(<<AcmeEntry(path, <<Ref("obj", file)>>)>>))
       /\ dry = FreshRun(FALSE, Disk(<<AcmeEntry(path, <<Ref("obj", file)>>)>>))
  /\ runNo = 1
  /\ prior = [none |-> TRUE]
  /\ matcher = NoMatch
  /\ deriver = NoDerive
  /\ client = IdleClient

\* the candidate of the entry's reference, as processEntry of backfill (result)
\* and processEntry of refresh (refresh) compute it
Match ==
  /\ matcher.pc = "ready"
  /\ LET entry == run.disk.robots[1]
     IN  matcher' =
           [pc |-> "matched",
            result |-> BackfillCandidate(entry.robots[1].file,
                                         EntryUrdfPaths(entry, Response(entry).tree),
                                         NormalizedPath(entry)),
            refresh |-> RefreshCandidate(entry.robots[1].file,
                                         EntryUrdfPaths(entry, Response(entry).tree),
                                         NormalizedPath(entry))]
  /\ UNCHANGED <<args, provider, run, dry, runNo, prior, client, deriver>>

NextMatch == Match

SpecMatch == InitMatch /\ [][NextMatch]_vars

\* the paths of the candidate index with the basename of the reference,
\* narrowed to the scoped path when some of them lie under it
EligiblePaths ==
  LET entry == run.disk.robots[1]
      file == RawFile(entry.robots[1].file)
      scope == NormalizedPath(entry)
      urdf == Range(EntryUrdfPaths(entry, Response(entry).tree))
      named == {p \in urdf : ToLower(Basename(p)) = ToLower(Basename(file))}
      scoped == {p \in named : StartsWith(p, scope \o <<"/">>)}
  IN  IF scope # NoPath /\ scoped # {} THEN scoped ELSE named

ExactMatch ==
  LET entry == run.disk.robots[1]
  IN  \E p \in Range(EntryUrdfPaths(entry, Response(entry).tree)) :
        ToLower(p) = ToLower(RawFile(entry.robots[1].file))

\* shorter first, then the order of localeCompare
ComesBefore(a, b) ==
  Len(a) < Len(b) \/ (Len(a) = Len(b) /\ LocaleCompare(a, b) < 0)

SpecExample ==
  /\ run.disk.robots[1].path = NoPath
  /\ run.disk.robots[1].robots[1].file = BareSo100
  /\ Range(provider[AcmeRepo].tree) = {Blob(ArmSo100), Blob(LegSo100)}

MatchScope == NormalizedPath(run.disk.robots[1])

\* the paths of the candidate index with the basename of the reference
NamedPaths ==
  LET entry == run.disk.robots[1]
      file == RawFile(entry.robots[1].file)
  IN  {p \in Range(EntryUrdfPaths(entry, Response(entry).tree)) :
         ToLower(Basename(p)) = ToLower(Basename(file))}

\* those of them under scopedPath/
ScopedNamedPaths == {p \in NamedPaths : StartsWith(p, MatchScope \o <<"/">>)}

ScopedExample ==
  /\ run.disk.robots[1].path = Leg
  /\ run.disk.robots[1].robots[1].file = BareSo100
  /\ Range(provider[AcmeRepo].tree) = {Blob(ArmSo100), Blob(LegSo100)}

FellBackFromScope ==
  /\ matcher.pc = "matched"
  /\ ~ExactMatch
  /\ MatchScope = Arm
  /\ ScopedNamedPaths = {}
  /\ matcher.result = LegSo100

\* the description files of the tree as the matcher sees them
MatchUrdfPaths ==
  Range(EntryUrdfPaths(run.disk.robots[1], Response(run.disk.robots[1]).tree))

\* the reference, separators normalized and leading slashes stripped
MatchFile == RawFile(run.disk.robots[1].robots[1].file)

\* C12: when the reference (separators normalized, leading slash stripped)
\* equals a tree path case-insensitively, the result in both modes is a tree
\* path, in the tree's casing, equal to the reference case-insensitively,
\* whatever shorter or in-scope paths with the same basename exist.
ExactMatchFirst ==
  (matcher.pc = "matched" /\ ExactMatch) =>
    /\ matcher.result \in MatchUrdfPaths
    /\ ToLower(matcher.result) = ToLower(MatchFile)
    /\ matcher.refresh \in MatchUrdfPaths
    /\ ToLower(matcher.refresh) = ToLower(MatchFile)

\* the exact path has won over a shorter candidate and over one in scope
ExactBeatShorterAndScoped ==
  /\ matcher.pc = "matched"
  /\ ExactMatch
  /\ MatchScope = Arm
  /\ MatchFile = LegSo100
  /\ ShortSo100 \in NamedPaths
  /\ ArmSo100 \in ScopedNamedPaths
  /\ matcher.result = LegSo100
  /\ matcher.refresh = LegSo100

\* C13: for every reference, tree and scopedPath, the path the reference
\* resolves to in refresh mode equals the path it resolves to in backfill mode.
SameMatcher ==
  matcher.pc = "matched" => matcher.refresh = matcher.result

(***************************************************************************)
(* The fetch client on its own: one call of githubFetch, the provider      *)
(* answering each request as it likes.  Every request ends and every sleep *)
(* ends, which is the fairness of SpecFetch.                               *)
(***************************************************************************)
Replies ==
  {Reply(200, NoHeader, NoHeader, body) : body \in {"json", "garbage"}}
    \cup {Reply(status, NoHeader, NoHeader, "none") : status \in {0, 404} \cup Retryable}
    \cup {Reply(403, remaining, reset, "none") :
            remaining \in {NoHeader, "0", "1", "n/a"},
            reset \in {NoHeader, "0", "past", "future"}}

InitFetch ==
  /\ args = Flags("backfill", {}, 0, 1)
  /\ provider = [k \in {AcmeRepo, BetaRepo} |-> Listing(<<>>)]
  /\ run = FreshRun(TRUE, Disk(<<>>))
  /\ dry = FreshRun(FALSE, Disk(<<>>))
  /\ runNo = 1
  /\ prior = [none |-> TRUE]
  /\ matcher = NoMatch
  /\ deriver = NoDerive
  /\ \E maxRetries \in 0..MaxRetries, retryDelayMs \in {250, 1000} :
       client = NewClient(maxRetries, retryDelayMs)

\* the request in flight ends
Respond ==
  /\ client.pc = "requesting"
  /\ \E reply \in Replies : client' = Settle(client, reply)
  /\ UNCHANGED <<args, provider, run, dry, runNo, prior, matcher, deriver>>

\* the sleep ends and the loop sends the next request
WakeUp ==
  /\ client.pc \in {"rate-wait", "backoff"}
  /\ client' = [client EXCEPT !.pc = "requesting", !.requests = Count(@)]
  /\ UNCHANGED <<args, provider, run, dry, runNo, prior, matcher, deriver>>

NextFetch == Respond \/ WakeUp

SpecFetch == InitFetch /\ [][NextFetch]_vars /\ WF_vars(Respond) /\ WF_vars(WakeUp)

\* while every reply has had a status in {429, 500, 502, 503, 504}: nothing
\* is returned, the k-th wait is a backoff of retryDelayMs * 2^(k-1), one
\* wait precedes each request after the first, there are at most
\* maxRetries + 1 requests, and the call fails only after maxRetries + 1
\* requests, with the error of the last reply
RetryDiscipline ==
  client.onlyRetryable =>
    /\ client.pc # "returned"
    /\ client.requests <= client.maxRetries + 1
    /\ Len(client.waits) = IF client.pc = "backoff" THEN client.requests
                           ELSE client.requests - 1
    /\ \A k \in 1..Len(client.waits) :
         client.waits[k] = [kind |-> "backoff", ms |-> client.retryDelayMs * 2^(k - 1)]
    /\ client.pc = "failed" =>
         /\ client.requests = client.maxRetries + 1
         /\ client.error.statusCode = client.last.status

\* C15: for a URL whose every reply has a status in {429, 500, 502, 503, 504}
\* the client issues exactly maxRetries + 1 requests, waits
\* retryDelayMs * 2^(k-1) before the k-th retry, and then fails with the
\* last error.
RetriesThenFails ==
  /\ []RetryDiscipline
  /\ ([](client.onlyRetryable) => <>(client.pc = "failed"))

\* two retries after 1000 and 2000 ms, then the failure with the third error
RetriedTwiceThenFailed ==
  /\ client.pc = "failed"
  /\ client.onlyRetryable
  /\ client.maxRetries = 2
  /\ client.requests = 3
  /\ client.waits = <<[kind |-> "backoff", ms |-> 1000], [kind |-> "backoff", ms |-> 2000]>>
  /\ client.error.statusCode = 503

\* C16: waits for the rate limit do not use up the retry budget: a call that
\* fails with a retryable status has retried retryable failures maxRetries
\* times, however many rate-limit replies (403, remaining 0, reset present)
\* came in between.
RateLimitSparesBudget ==
  (client.pc = "failed" /\ client.error.statusCode \in Retryable /\ ~client.unstated) =>
    client.backoffs = client.maxRetries

\* a 403 whose remaining header is present with value zero and whose reset
\* header is present
StatedRateLimit(reply) ==
  /\ reply.status = 403
  /\ reply.remaining = "0"
  /\ reply.reset # NoHeader

\* C17: the client waits for the rate limit only after a 403 whose remaining
\* header is present with value exactly zero and whose reset header is
\* present; after any other 403, one without the remaining header included,
\* the call has failed.
RateLimitOnlyWhenStated ==
  /\ client.pc = "rate-wait" => StatedRateLimit(client.last)
  /\ (client.last.status = 403 /\ ~StatedRateLimit(client.last)) => client.pc = "failed"

\* a reply that ends the call in failure: a status other than 200 and the
\* retryable ones that is not a rate-limit 403, a transport error, or a body
\* that does not parse
FinalReply(reply) ==
  \/ /\ reply.status \notin {-1, 200} \cup Retryable
     /\ ~StatedRateLimit(reply)
  \/ reply.status = 200 /\ reply.body # "json"

\* C18: after a reply with a non-2xx status outside {429, 500, 502, 503, 504}
\* that is not a rate-limit 403, after a transport error and after an
\* unparseable body, the call has failed with that error, without a wait or a
\* request after it: as the first reply, after exactly one request.
FinalReplyFailsAtOnce ==
  FinalReply(client.last) =>
    /\ client.pc = "failed"
    /\ client.replies < MaxNoted =>
         /\ client.requests = client.replies
         /\ Len(client.waits) = client.replies - 1

\* the call has returned a parsed body or failed with a final error
FetchOver == client.pc \in {"returned", "failed"}

GoneUpper == Gone \o <<".", "U", "R", "D", "F">>

\* a reference object that carries the fileBase derived from its file
BasedRef(file) == [Ref("obj", file) EXCEPT !.fileBase = toPreviewBase(file)]

KeyRefs ==
  {BasedRef(BareSo100), Ref("obj", LegSo100), Ref("obj", GoneUrdf), Ref("obj", GoneUpper)}

\* a 200 response whose body is the JSON text null, for either request
NullBodies ==
  {[meta |-> "null", fetch |-> "ok", truncated |-> FALSE, tree |-> <<>>],
   [meta |-> "ok", fetch |-> "null", truncated |-> FALSE, tree |-> <<>>]}

EntryAnswers ==
  NullBodies \cup {Listing(<<Blob(LegSo100)>>), Listing(<<Blob(LegSo100), Blob(ArmSo100)>>)}

InitEntries ==
  /\ \E mode \in Modes, concurrency \in 1..MaxWorkers :
       args = Flags(mode, {}, 0, concurrency)
  /\ \E a \in EntryAnswers, b \in {Listing(<<Blob(ArmSo100)>>)} :
       provider = [k \in {AcmeRepo, BetaRepo} |-> IF k = AcmeRepo THEN a ELSE b]
  /\ \E robots \in DistinctSeqs(KeyRefs, MaxRefs) :
       /\ run = FreshRun(TRUE, Disk(<<AcmeEntry(NoPath, robots), BetaEntry>>))
       /\ dry = FreshRun(FALSE, Disk(<<AcmeEntry(NoPath, robots), BetaEntry>>))
  /\ runNo = 1
  /\ prior = [none |-> TRUE]
  /\ matcher = NoMatch
  /\ deriver = NoDerive
  /\ client = IdleClient

SpecEntries == InitEntries /\ [][Next]_vars

\* the workers have all come to rest, by leaving their loop or by an exception
PoolFinished(r) == \A w \in DOMAIN r.workers : r.workers[w].pc \in {"done", "threw"}

WorkersAtRest(r) == r.pc = "workers" /\ PoolFinished(r)

\* the report holds a record naming the entry at idx
Recorded(r, idx) ==
  LET repoKey == normalizeRepoKey(RepoOrKey(r.robotsJson[idx]))
      records == IF args.mode = "backfill" THEN r.report.missing ELSE r.report.missingFiles
  IN  \E i \in 1..Len(records) : records[i].repoKey = repoKey

\* C21: an error raised while one entry is processed (here a response whose
\* body is null) becomes a report record; the run is not aborted, the other
\* entries are processed and the report can be written
ErrorsBecomeRecords ==
  WorkersAtRest(run) =>
    /\ AllDone(run)
    /\ \A idx \in DOMAIN run.outcome : run.outcome[idx] # "pending"
    /\ \A idx \in DOMAIN run.outcome :
         (/\ run.outcome[idx] # "not-dispatched"
          /\ Response(run.robotsJson[idx]) \in NullBodies) => Recorded(run, idx)

(***************************************************************************)
(* The worker pool.                                                        *)
(***************************************************************************)
\* the workers that are inside processEntry, awaiting a request
InFlight(r) == {w \in DOMAIN r.workers : r.workers[w].pc \in {"repo", "tree"}}

Dispatched(r) == {i \in DOMAIN r.outcome : r.outcome[i] # "not-dispatched"}
Terminal(r) == {i \in Dispatched(r) : r.outcome[i] \notin {"pending", "threw"}}

\* how many times processEntry has run to its end, by what it leaves behind:
\* backfill counts every entry once in updated, unchanged or skipped, refresh
\* gets one element of results for every return
Completions(r) ==
  IF args.mode = "backfill"
    THEN r.report.updated + r.report.unchanged + r.report.skipped
    ELSE Len(r.results) + Cardinality({w \in DOMAIN r.workers : r.workers[w].ret # "none"})

\* C22: every dispatched entry is taken from the queue by exactly one worker
\* and processed once from start to finish: queued entries are distinct, pending and held by
\* nobody, no two workers hold the same entry, a pending entry is either
\* queued or held, processEntry has completed once per terminal entry, and
\* when the pool finishes nothing is pending
EachEntryOnce ==
  run.pc # "start" =>
    /\ \A i, j \in 1..Len(run.queue) : run.queue[i] = run.queue[j] => i = j
    /\ \A v, w \in InFlight(run) : run.workers[v].entry = run.workers[w].entry => v = w
    /\ \A idx \in Dispatched(run) :
         run.outcome[idx] = "pending" <=>
           (idx \in Range(run.queue)) # (\E w \in InFlight(run) : run.workers[w].entry = idx)
    /\ \A idx \in Dispatched(run) : run.outcome[idx] # "threw"
    /\ Completions(run) = Cardinality(Terminal(run))
    /\ (args.mode = "refresh" =>
          \A i, j \in 1..Len(run.results) :
            run.results[i].entry = run.results[j].entry => i = j)
    /\ PoolFinished(run) => (run.queue = <<>> /\ Terminal(run) = Dispatched(run))

(***************************************************************************)
(* The --concurrency flag as given on the command line, and the pool made  *)
(* from it.                                                                *)
(***************************************************************************)
\* args.get("concurrency"): undefined, true (the flag without a value), or the
\* text that follows the flag, a decimal numeral or something else
Absent == [kind |-> "absent", n |-> 0]
Bare == [kind |-> "bare", n |-> 0]
Text == [kind |-> "text", n |-> 0]
Numeral(n) == [kind |-> "numeral", n |-> n]

Requests == {Absent, Bare, Text} \cup {Numeral(n) : n \in (-1)..MaxWorkers}

\* Number(args.get("concurrency") || 2): a text is truthy whatever it says
NumberOf(requested) ==
  CASE requested.kind = "absent" -> [nan |-> FALSE, n |-> 2]
    [] requested.kind = "bare" -> [nan |-> FALSE, n |-> 1]
    [] requested.kind = "numeral" -> [nan |-> FALSE, n |-> requested.n]
    [] requested.kind = "text" -> [nan |-> TRUE, n |-> 0]

\* Math.max(1, x): NaN when x is NaN
MathMax1(x) == IF x.nan THEN x ELSE [x EXCEPT !.n = Max(1, @)]

\* const concurrency = Math.max(1, Number(args.get("concurrency") || 2))
Concurrency(requested) == MathMax1(NumberOf(requested))

\* Array.from({ length: concurrency }, ...).length: a length of NaN is 0
PoolLength(concurrency) == IF concurrency.nan THEN 0 ELSE concurrency.n

InitPool ==
  /\ \E mode \in Modes, requested \in Requests :
       args = [mode |-> mode, only |-> {}, limit |-> 0, requested |-> requested,
               concurrency |-> PoolLength(Concurrency(requested))]
  /\ \E a \in PlainAnswers, b \in PlainAnswers :
       provider = [k \in {AcmeRepo, BetaRepo} |-> IF k = AcmeRepo THEN a ELSE b]
  /\ LET catalog == <<BetaEntry, AcmeEntry(NoPath, <<Ref("obj", BareSo100)>>), KeyOnlyEntry>>
     IN  /\ run = FreshRun(TRUE, Disk(catalog))
         /\ dry = FreshRun(FALSE, Disk(catalog))
  /\ runNo = 1
  /\ prior = [none |-> TRUE]
  /\ matcher = NoMatch
  /\ deriver = NoDerive
  /\ client = IdleClient

SpecPool == InitPool /\ [][Next]_vars

\* C23: at every moment the entries in processing (taken from the queue, not
\* yet terminal) are at most the configured concurrency limit, and the pool
\* has at least one worker
PoolWithinLimit ==
  run.pc # "start" =>
    /\ Len(run.workers) >= 1
    /\ ~Concurrency(args.requested).nan
    /\ Cardinality(InFlight(run)) <= Concurrency(args.requested).n

\* what holds of every run: never more entries in processing
\* than workers, and never more workers than the limit when the limit is a number
InFlightWithinPool ==
  run.pc # "start" =>
    /\ Cardinality(InFlight(run)) <= Len(run.workers)
    /\ ~Concurrency(args.requested).nan => Len(run.workers) = Concurrency(args.requested).n

\* two workers have shared three dispatched entries and the pool has finished
PoolSharedThreeEntries ==
  /\ run.pc = "workers" /\ AllDone(run)
  /\ Len(run.workers) = 2
  /\ Cardinality(Dispatched(run)) = 3
  /\ Terminal(run) = Dispatched(run)

TerminalOutcomes == {"fetch-failed", "truncated", "removed", "reconciled"}

\* C24: when the pool has finished every dispatched entry is in one of the
\* terminal outcomes fetch-failed, truncated, removed (refresh only) and
\* reconciled, and in backfill updated + unchanged + skipped is the number of
\* dispatched entries
OneTerminalOutcome ==
  (run.pc # "start" /\ PoolFinished(run)) =>
    /\ \A idx \in Dispatched(run) :
         /\ run.outcome[idx] \in TerminalOutcomes
         /\ run.outcome[idx] = "removed" => args.mode = "refresh"
    /\ args.mode = "backfill" =>
         run.report.updated + run.report.unchanged + run.report.skipped
           = Cardinality(Dispatched(run))

\* what holds when no exception escapes: a fifth outcome, skipped, for an entry
\* whose repo is not a repository URL, and the sum of the backfill counters
OutcomesWithSkipped ==
  (run.pc # "start" /\ AllDone(run)) =>
    /\ \A idx \in Dispatched(run) :
         /\ run.outcome[idx] \in TerminalOutcomes \cup {"skipped"}
         /\ run.outcome[idx] = "removed" => args.mode = "refresh"
    /\ args.mode = "backfill" =>
         run.report.updated + run.report.unchanged + run.report.skipped
           = Cardinality(Dispatched(run))

\* an outcome, once terminal, is kept until the next invocation
OutcomesKept ==
  [][\A idx \in DOMAIN run.outcome :
       (run.outcome[idx] \notin {"pending", "not-dispatched"} /\ run'.pc # "start")
         => run'.outcome[idx] = run.outcome[idx]]_vars

(***************************************************************************)
(* A stalled worker.  The first worker's requests need never settle; the   *)
(* requests of the other workers do, and a continuation that is ready is   *)
(* run by the event loop.                                                  *)
(***************************************************************************)
InitStall ==
  /\ \E mode \in Modes, concurrency \in 1..MaxWorkers :
       args = Flags(mode, {}, 0, concurrency)
  /\ \E a \in PlainAnswers \cup NullBodies, b \in PlainAnswers :
       provider = [k \in {AcmeRepo, BetaRepo} |-> IF k = AcmeRepo THEN a ELSE b]
  /\ LET catalog == <<BetaEntry, AcmeEntry(NoPath, <<Ref("obj", BareSo100)>>), KeyOnlyEntry>>
     IN  /\ run = FreshRun(TRUE, Disk(catalog))
         /\ dry = FreshRun(FALSE, Disk(catalog))
  /\ runNo = 1
  /\ prior = [none |-> TRUE]
  /\ matcher = NoMatch
  /\ deriver = NoDerive
  /\ client = IdleClient

\* a worker whose processEntry has returned turns its loop again
LoopsRun == \A w \in 1..MaxWorkers : WF_vars(WorkerTurn(w))

\* the requests of the workers other than the first settle.  TreeSettles(w) is
\* enabled exactly while worker w awaits its tree request and ends that wait, so
\* its weak fairness is stated as: infinitely often, w is not awaiting it
OthersSettle ==
  \A w \in 2..MaxWorkers :
    WF_vars(RepoSettles(w)) /\ []<>~WorkerAt(run, w, "tree")

SpecStall == InitStall /\ [][Next]_vars /\ WF_vars(Start) /\ LoopsRun /\ OthersSettle

\* the entries still pending are entries the first worker is processing
OnlyTheStalledPending ==
  run.pc # "start" =>
    \A idx \in Dispatched(run) :
      run.outcome[idx] = "pending" =>
        (1 \in InFlight(run) /\ run.workers[1].entry = idx)

\* C25: with at least two workers, whatever the first worker is suspended on,
\* the other workers go on taking entries and every other queued entry
\* reaches a terminal outcome
StallDoesNotBlock == (args.concurrency >= 2) => <>[]OnlyTheStalledPending

SomeWorkerThrew == \E w \in DOMAIN run.workers : run.workers[w].pc = "threw"

\* the same, for the runs in which no exception ends a worker
StallDoesNotBlockUnlessThrown ==
  (args.concurrency >= 2) => (<>[]OnlyTheStalledPending \/ <>SomeWorkerThrew)

(***************************************************************************)
(* Stale preview keys and collisions.                                      *)
(***************************************************************************)
ReportIsWritten(r) == "report" \in Range(r.writes)

\* the preview keys in the report file of this invocation
ReportedKeys(r) ==
  IF "previewKeys" \in DOMAIN r.disk.report THEN r.disk.report.previewKeys ELSE {}

\* the entry at idx as read, and the description files found for it
ReadEntry(r, idx) == r.input.robots[idx]
FoundPaths(r, idx) == EntryUrdfPaths(ReadEntry(r, idx), Response(ReadEntry(r, idx)).tree)

\* what the reference at position i of the entry resolves to, NoPath if to nothing
Resolved(r, idx, i) ==
  LET entry == ReadEntry(r, idx)
      robot == entry.robots[i]
  IN  IF RawFile(robot.file) = NoPath THEN NoPath
      ELSE IF args.mode = "backfill"
        THEN BackfillCandidate(robot.file, FoundPaths(r, idx), NormalizedPath(entry))
      ELSE RefreshCandidate(robot.file, FoundPaths(r, idx), NormalizedPath(entry))

\* the file of that reference was rewritten by the reconciliation
Rewritten(r, idx, i) ==
  /\ r.outcome[idx] = "reconciled"
  /\ Resolved(r, idx, i) \notin {NoPath, ReadEntry(r, idx).robots[i].file}

Reconciled(r) == {idx \in DOMAIN r.outcome : r.outcome[idx] = "reconciled"}

\* C26: in both modes the preview key of the new file of every rewritten
\* reference is in the set of stale preview keys written with the report
RewrittenKeysReported ==
  ReportIsWritten(run) =>
    \A idx \in Reconciled(run) : \A i \in DOMAIN ReadEntry(run, idx).robots :
      Rewritten(run, idx, i) =>
        PreviewKey(KeyOf(ReadEntry(run, idx)), Resolved(run, idx, i)) \in ReportedKeys(run)

\* the same of backfill alone
BackfillRewrittenKeysReported == args.mode = "backfill" => RewrittenKeysReported

\* a backfill has rewritten a reference and written its report
BackfillRewroteAndReported ==
  /\ args.mode = "backfill" /\ ReportIsWritten(run)
  /\ \E idx \in Reconciled(run) : \E i \in DOMAIN ReadEntry(run, idx).robots :
       Rewritten(run, idx, i)

\* the preview keys of the references rewritten in this invocation
RewrittenKeys(r) ==
  UNION {{PreviewKey(KeyOf(ReadEntry(r, idx)), Resolved(r, idx, i)) :
            i \in {j \in DOMAIN ReadEntry(r, idx).robots : Rewritten(r, idx, j)}} :
         idx \in Reconciled(r)}

\* C27: in backfill the stale preview keys are keys of rewritten references
\* only; a reference that was not rewritten contributes no key, even when
\* another reference of its entry was rewritten
OnlyRewrittenKeys ==
  (args.mode = "backfill" /\ ReportIsWritten(run)) => ReportedKeys(run) \subseteq RewrittenKeys(run)

\* what the code does: the keys of all references of the entries it changed
KeysOfChangedEntries ==
  (args.mode = "backfill" /\ ReportIsWritten(run)) =>
    ReportedKeys(run) =
      UNION {PreviewKeysOf(KeyOf(ReadEntry(run, idx)), run.robotsJson[idx].robots) :
               idx \in {j \in Reconciled(run) :
                          \E i \in DOMAIN ReadEntry(run, j).robots : Rewritten(run, j, i)}}

\* two references of the entry at idx, as the run leaves it, derive the same fileBase
Clash(r, idx, i, j) ==
  LET robots == r.robotsJson[idx].robots
  IN  /\ i # j
      /\ robots[i].file # NoPath /\ robots[j].file # NoPath
      /\ toPreviewBase(robots[i].file) = toPreviewBase(robots[j].file)

\* the collisions of the written report hold the key with both files
ClashReported(r, idx, i, j) ==
  LET robots == r.robotsJson[idx].robots
      collisions == r.disk.report.collisions
  IN  \E n \in 1..Len(collisions) :
        /\ collisions[n].key = PreviewKey(KeyOf(r.robotsJson[idx]), robots[i].file)
        /\ {robots[i].file, robots[j].file} \subseteq Range(collisions[n].files)

\* C28: whenever two references of one entry derive the same fileBase, the
\* collisions of the backfill report hold their preview key with the
\* conflicting files, whether or not the entry was rewritten
ClashesReported ==
  (args.mode = "backfill" /\ ReportIsWritten(run)) =>
    \A idx \in Reconciled(run) : \A i, j \in DOMAIN run.robotsJson[idx].robots :
      Clash(run, idx, i, j) => ClashReported(run, idx, i, j)

\* the same of the entries the run has changed
ClashesOfChangedReported ==
  (args.mode = "backfill" /\ ReportIsWritten(run)) =>
    \A idx \in Reconciled(run) : \A i, j \in DOMAIN run.robotsJson[idx].robots :
      (Clash(run, idx, i, j) /\ run.robotsJson[idx] # ReadEntry(run, idx))
        => ClashReported(run, idx, i, j)

\* a clash in a changed entry is in the report, and the catalog was committed
ChangedClashCommitted ==
  /\ args.mode = "backfill" /\ Committed(run)
  /\ \E idx \in Reconciled(run) : \E i, j \in DOMAIN run.robotsJson[idx].robots :
       /\ Clash(run, idx, i, j)
       /\ run.robotsJson[idx] # ReadEntry(run, idx)
       /\ ClashReported(run, idx, i, j)

\* every reference of the catalog that carries a fileBase carries the one
\* derived from its file
FileBasesDerived(catalog) ==
  \A idx \in DOMAIN catalog : \A i \in DOMAIN catalog[idx].robots :
    LET robot == catalog[idx].robots[i]
    IN  robot.fileBase # NoBase => robot.fileBase = toPreviewBase(robot.file)

\* C29: if fileBase = deriveFileBase(file) holds of every reference that
\* carries a fileBase before a run, it holds of every reference of the
\* catalog the run commits, rewritten references included
FileBasePreserved ==
  (Committed(run) /\ FileBasesDerived(run.input.robots)) => FileBasesDerived(run.disk.robots)

\* the same of the references the run has not rewritten
FileBaseOfUntouchedPreserved ==
  (Committed(run) /\ FileBasesDerived(run.input.robots)) =>
    \A idx \in DOMAIN run.disk.robots : \A i \in DOMAIN run.disk.robots[idx].robots :
      LET robot == run.disk.robots[idx].robots[i]
      IN  (\E j \in DOMAIN run.input.robots : robot \in Range(run.input.robots[j].robots))
            => (robot.fileBase # NoBase => robot.fileBase = toPreviewBase(robot.file))

(***************************************************************************)
(* toPreviewBase on its own.                                               *)
(***************************************************************************)
BasePaths ==
  {ArmSo100, LegSo100, LegUpperSo100, BackslashLeg, BareSo100, ArmGone, GoneUrdf, GoneUpper,
   Sl \o LegSo100, Readme, Arm \o Sl, NoPath}

InitBase ==
  /\ args = Flags("backfill", {}, 0, 1)
  /\ provider = [k \in {AcmeRepo, BetaRepo} |-> Listing(<<>>)]
  /\ run = FreshRun(TRUE, Disk(<<>>))
  /\ dry = FreshRun(FALSE, Disk(<<>>))
  /\ runNo = 1
  /\ prior = [none |-> TRUE]
  /\ matcher = NoMatch
  /\ client = IdleClient
  /\ \E path \in BasePaths, other \in BasePaths : deriver = Deriving(path, other)

\* toPreviewBase(path), then toPreviewBase(other)
Derive ==
  /\ deriver.pc = "ready"
  /\ deriver' = [deriver EXCEPT !.pc = "derived",
                                !.first = toPreviewBase(deriver.path),
                                !.second = toPreviewBase(deriver.other)]
  /\ UNCHANGED <<args, provider, run, dry, runNo, prior, matcher, client>>

\* toPreviewBase(path) once more
DeriveAgain ==
  /\ deriver.pc = "derived"
  /\ deriver' = [deriver EXCEPT !.pc = "again", !.again = toPreviewBase(deriver.path)]
  /\ UNCHANGED <<args, provider, run, dry, runNo, prior, matcher, client>>

NextBase == Derive \/ DeriveAgain

SpecBase == InitBase /\ [][NextBase]_vars

\* the path as toPreviewBase hashes it, and the part of it that is slugged
HashedPart(path) == StripUrdf(SlashNormalize(path))
SluggedPart(path) ==
  LET normalized == HashedPart(path)
      last == SubSeq(normalized, LastSlash(normalized) + 1, Len(normalized))
  IN  IF last = <<>> THEN normalized ELSE last

\* C30: toPreviewBase is a function of its argument alone: a second call on
\* the same path returns the same slug--hash value; the hash covers the whole
\* path (backslashes as slashes, without the extension) and the slug only the
\* basename, so arm/urdf/so100.urdf and leg/urdf/so100.urdf get the same slug
\* and different values
DeriverIsPure ==
  /\ deriver.pc = "again" => deriver.again = deriver.first
  /\ deriver.pc # "ready" =>
       /\ deriver.first.hash = hashString(HashedPart(deriver.path))
       /\ deriver.first.slug \in {slugify(SluggedPart(deriver.path)), Robot}
       /\ deriver.path = deriver.other => deriver.first = deriver.second
       /\ SluggedPart(deriver.path) = SluggedPart(deriver.other)
            => deriver.first.slug = deriver.second.slug
       /\ HashedPart(deriver.path) # HashedPart(deriver.other)
            => deriver.first # deriver.second
       /\ (deriver.path = ArmSo100 /\ deriver.other = LegSo100) =>
            (deriver.first # deriver.second /\ deriver.first.slug = deriver.second.slug)

\* both calls on arm/urdf/so100.urdf and the call on leg/urdf/so100.urdf are made
ArmAndLegDerived ==
  /\ deriver.pc = "again"
  /\ deriver.path = ArmSo100 /\ deriver.other = LegSo100
  /\ deriver.first.slug = So100

(***************************************************************************)
(* Which entries are dispatched: catalogs with entries that do not pass    *)
(* the filter at the front and in the middle, allow-lists and limits.      *)
(***************************************************************************)
DispatchCatalogs ==
  LET acme == AcmeEntry(NoPath, <<Ref("obj", BareSo100)>>)
  IN  {<<BlankEntry, BetaEntry, acme, KeyOnlyEntry>>,
       <<acme, BlankEntry, KeyOnlyEntry, BetaEntry>>}

AllowLists == {{}, {AcmeKey}, {KeyOf(BetaEntry), KeyOf(KeyOnlyEntry)}}

InitDispatch ==
  /\ \E mode \in Modes, only \in AllowLists, limit \in (-1)..(MaxLimit + 1),
        concurrency \in 1..MaxWorkers :
       args = Flags(mode, only, limit, concurrency)
  /\ \E a \in PlainAnswers :
       provider = [k \in {AcmeRepo, BetaRepo} |->
                     IF k = AcmeRepo THEN a ELSE Listing(<<Blob(ArmSo100)>>)]
  /\ \E catalog \in DispatchCatalogs :
       /\ run = FreshRun(TRUE, Disk(catalog))
       /\ dry = FreshRun(FALSE, Disk(catalog))
  /\ runNo = 1
  /\ prior = [none |-> TRUE]
  /\ matcher = NoMatch
  /\ deriver = NoDerive
  /\ client = IdleClient

SpecDispatch == InitDispatch /\ [][Next]_vars

\* the entry at idx has a repoKey and the allow-list, when there is one, holds it
Allowed(r, idx) ==
  /\ KeyOf(r.robotsJson[idx]) # NoKey
  /\ args.only = {} \/ KeyOf(r.robotsJson[idx]) \in args.only

\* the allowed entries before idx in the catalog
AllowedBefore(r, idx) == {j \in 1..(idx - 1) : Allowed(r, j)}

\* the entries a worker has taken from the queue
Taken(r) == Dispatched(r) \ Range(r.queue)

\* C31: the dispatched entries are the first limit allowed entries in catalog
\* order, all of them when the limit is 0 or less, and they are dequeued in
\* catalog order
FirstAllowedDispatched ==
  run.pc # "start" =>
    /\ Dispatched(run) =
         {idx \in DOMAIN run.robotsJson :
            /\ Allowed(run, idx)
            /\ args.limit > 0 => Cardinality(AllowedBefore(run, idx)) < args.limit}
    /\ \A i, j \in 1..Len(run.queue) : i < j => run.queue[i] < run.queue[j]
    /\ \A idx \in Taken(run) : \A j \in Range(run.queue) : idx < j

\* a limit of 2 has cut the allowed entries behind an entry that is not
\* allowed, and a worker is taking the second of them after the first
LimitCutAllowed ==
  /\ run.pc = "workers" /\ args.limit = 2
  /\ Cardinality(Dispatched(run)) = 2
  /\ \E idx \in DOMAIN run.robotsJson : Allowed(run, idx) /\ idx \notin Dispatched(run)
  /\ \E idx \in Dispatched(run) : ~Allowed(run, 1) /\ idx > 2
  /\ Cardinality(Taken(run)) = 2 /\ Len(run.workers) = 1

\* a limit below zero has left every allowed entry dispatched
NegativeLimitNoCap ==
  /\ run.pc = "workers" /\ args.limit < 0
  /\ Cardinality(Dispatched(run)) = 3

(***************************************************************************)
(* The tree resolver on its own: from the tree response and the entry's    *)
(* path to the candidate paths.                                            *)
(***************************************************************************)
ResolverNodes ==
  {Blob(LegSo100), Blob(LegUpperSo100), Blob(ArmSo100), Blob(Readme), Dir(GoneUrdf), Dir(Leg)}

ResolverScopes == {NoPath, Sl, Sl \o LegUpper \o Sl, Leg, Leg \o Sl \o UrdfDir, Gone}

Unresolved == [pc |-> "ready", normalizedTreePaths |-> <<>>, urdfPaths |-> <<>>]

InitTree ==
  /\ args = Flags("backfill", {}, 0, 1)
  /\ \E tree \in DistinctSeqs(ResolverNodes, MaxTree) :
       provider = [k \in {AcmeRepo, BetaRepo} |->
                     [meta |-> "ok", fetch |-> "ok", truncated |-> FALSE, tree |-> tree]]
  /\ \E path \in ResolverScopes :
       /\ run = FreshRun(TRUE, Disk(<<AcmeEntry(path, <<>>)>>))
       /\ dry = FreshRun(FALSE, Disk(<<AcmeEntry(path, <<>>)>>))
  /\ runNo = 1
  /\ prior = [none |-> TRUE]
  /\ matcher = Unresolved
  /\ deriver = NoDerive
  /\ client = IdleClient

\* treePaths, normalizedPath, normalizedTreePaths and urdfPaths of processEntry
Resolve ==
  /\ matcher.pc = "ready"
  /\ LET entry == run.disk.robots[1]
         resolved == NormalizedTreePaths(TreePaths(Response(entry).tree), NormalizedPath(entry))
     IN  matcher' = [pc |-> "resolved", normalizedTreePaths |-> resolved,
                     urdfPaths |-> UrdfPaths(resolved)]
  /\ UNCHANGED <<args, provider, run, dry, runNo, prior, client, deriver>>

NextTree == Resolve

SpecTree == InitTree /\ [][NextTree]_vars

\* the tree given to the resolver, the paths of its blobs in order, and the
\* entry's scopedPath without the slashes around it
GivenTree == Response(run.disk.robots[1]).tree
BlobIndices == {i \in 1..Len(GivenTree) : GivenTree[i].type = "blob"}
Scope == StripSlashes(run.disk.robots[1].path)

\* the entry has a scopedPath and no blob path starts with scopedPath/
ScopeMissing ==
  /\ Scope # <<>>
  /\ \A i \in BlobIndices : ~StartsWith(GivenTree[i].path, Scope \o Sl)

\* C32: the resolver prepends scopedPath/ to every blob path exactly when the
\* entry has a scopedPath and no blob path starts with scopedPath/, otherwise
\* it uses the blob paths unchanged; nodes that are not blobs give no candidate
ScopePrepended ==
  matcher.pc = "resolved" =>
    /\ Len(matcher.normalizedTreePaths) = Cardinality(BlobIndices)
    /\ \A i \in BlobIndices :
         LET n == Cardinality({j \in BlobIndices : j <= i})
         IN  matcher.normalizedTreePaths[n] =
               IF ScopeMissing THEN Scope \o Sl \o GivenTree[i].path ELSE GivenTree[i].path
    /\ \A n \in 1..Len(matcher.urdfPaths) :
         \E i \in BlobIndices :
           matcher.urdfPaths[n] \in {GivenTree[i].path, Scope \o Sl \o GivenTree[i].path}

\* the scope was put in front of the paths of a tree with a blob and a directory
PrependedToBlobsOnly ==
  /\ matcher.pc = "resolved"
  /\ ScopeMissing
  /\ BlobIndices # {} /\ BlobIndices # DOMAIN GivenTree
  /\ matcher.urdfPaths # <<>>

\* a tree in which one blob is under the scope and one is not is left as it is
LeftUnchangedWhenSomeUnderScope ==
  /\ matcher.pc = "resolved"
  /\ Scope # <<>> /\ ~ScopeMissing
  /\ \E i \in BlobIndices : ~StartsWith(GivenTree[i].path, Scope \o Sl)

(***************************************************************************)
(* The files a reconciliation writes into the references.                  *)
(***************************************************************************)
\* the files written into the references of the reconciled entry at idx:
\* backfill replaces the file at a position, refresh builds the list anew
WrittenFiles(r, idx) ==
  LET old == ReadEntry(r, idx).robots
      new == r.robotsJson[idx].robots
  IN  IF args.mode = "backfill"
        THEN {new[i].file : i \in {j \in DOMAIN new : new[j].file # old[j].file}}
        ELSE {new[i].file : i \in DOMAIN new}

\* the paths of the blobs of the tree fetched for the entry at idx
BlobPaths(r, idx) ==
  LET tree == Response(ReadEntry(r, idx)).tree
  IN  {tree[i].path : i \in {j \in 1..Len(tree) : tree[j].type = "blob"}}

ScopeOf(r, idx) == StripSlashes(ReadEntry(r, idx).path)

\* the entry has a scopedPath under which the tree has no blob
Synthesized(r, idx) ==
  /\ ScopeOf(r, idx) # <<>>
  /\ \A p \in BlobPaths(r, idx) : ~StartsWith(p, ScopeOf(r, idx) \o Sl)

\* C33: every file written into a reference is the path of a blob of the
\* fetched tree and ends in .urdf whatever the case
WrittenFilesInTree ==
  \A idx \in Reconciled(run) : \A file \in WrittenFiles(run, idx) :
    file \in BlobPaths(run, idx) /\ EndsWith(ToLower(file), DotUrdf)

\* C33 as amended: every file written into a reference ends in .urdf whatever
\* the case and is the path of a blob of the fetched tree, or scopedPath/
\* followed by such a path when the tree has no blob under the scopedPath
WrittenFilesAreCandidates ==
  \A idx \in Reconciled(run) : \A file \in WrittenFiles(run, idx) :
    /\ EndsWith(ToLower(file), DotUrdf)
    /\ file \in IF Synthesized(run, idx)
                  THEN {ScopeOf(run, idx) \o Sl \o p : p \in BlobPaths(run, idx)}
                  ELSE BlobPaths(run, idx)

\* a reference was rewritten to a blob of the tree, in a tree that also holds
\* a file of another kind
RewrittenToBlob ==
  \E idx \in Reconciled(run) :
    /\ ~Synthesized(run, idx)
    /\ WrittenFiles(run, idx) # {}
    /\ \E p \in BlobPaths(run, idx) : ~EndsWith(ToLower(p), DotUrdf)

\* a reference was given a path made of the scopedPath and a blob's path
WrittenUnderScope ==
  \E idx \in Reconciled(run) :
    /\ Synthesized(run, idx)
    /\ \E p \in BlobPaths(run, idx) : ScopeOf(run, idx) \o Sl \o p \in WrittenFiles(run, idx)

(***************************************************************************)
(* Refresh and the tree: coverage and a second refresh.                    *)
(***************************************************************************)
\* the files of the references of the entry at idx as the run leaves it
FilesOf(r, idx) == {r.robotsJson[idx].robots[i].file : i \in DOMAIN r.robotsJson[idx].robots}

\* every candidate path is the file of a reference, letter case aside, and
\* every reference's file is a candidate path
CoversTree(r, idx) ==
  /\ \A p \in Range(FoundPaths(r, idx)) : \E file \in FilesOf(r, idx) : ToLower(file) = ToLower(p)
  /\ FilesOf(r, idx) \subseteq Range(FoundPaths(r, idx))

\* C34: a reference list reconciled by refresh covers the tree exactly, and a
\* second refresh on the result with the same tree leaves it unchanged
RefreshCoversAndSettles ==
  args.mode = "refresh" =>
    \A idx \in Reconciled(run) :
      /\ CoversTree(run, idx)
      /\ runNo = 2 => run.robotsJson[idx].robots = ReadEntry(run, idx).robots

\* the coverage alone
RefreshCovers ==
  args.mode = "refresh" => \A idx \in Reconciled(run) : CoversTree(run, idx)

\* the second refresh leaves the files of the references, as a set, unchanged
\* up to letter case
RefreshSettlesUpToCase ==
  (args.mode = "refresh" /\ runNo = 2) =>
    \A idx \in Reconciled(run) :
      {ToLower(f) : f \in FilesOf(run, idx)}
        = {ToLower(ReadEntry(run, idx).robots[i].file) : i \in DOMAIN ReadEntry(run, idx).robots}

\* the second refresh changes nothing when no two candidate paths differ in
\* letter case only
RefreshSettlesWithoutCaseTwins ==
  (args.mode = "refresh" /\ runNo = 2) =>
    \A idx \in Reconciled(run) :
      (\A p, q \in Range(FoundPaths(run, idx)) : ToLower(p) = ToLower(q) => p = q)
        => run.robotsJson[idx].robots = ReadEntry(run, idx).robots

\* no two references of the list have the same file, letter case aside: the
\* duplicate-file check of validate-robots
DistinctFiles(robots) ==
  \A i, j \in DOMAIN robots :
    (i # j /\ robots[i].file # NoPath /\ robots[j].file # NoPath)
      => ToLower(robots[i].file) # ToLower(robots[j].file)

DistinctBases(robots) ==
  \A i, j \in DOMAIN robots :
    (i # j /\ robots[i].file # NoPath /\ robots[j].file # NoPath)
      => toPreviewBase(robots[i].file) # toPreviewBase(robots[j].file)

\* C35: an entry whose references had distinct files before the run has
\* references with distinct files and distinct derived fileBases after it
NoDuplicatesIntroduced ==
  \A idx \in Reconciled(run) :
    DistinctFiles(ReadEntry(run, idx).robots) =>
      /\ DistinctFiles(run.robotsJson[idx].robots)
      /\ DistinctBases(run.robotsJson[idx].robots)

\* the same of the entries whose references resolve to distinct paths
NoDuplicatesWhenResolvedApart ==
  \A idx \in Reconciled(run) :
    (/\ DistinctFiles(ReadEntry(run, idx).robots)
     /\ \A i, j \in DOMAIN ReadEntry(run, idx).robots :
          LET a == Resolved(run, idx, i)
              b == Resolved(run, idx, j)
              fa == IF a = NoPath THEN ReadEntry(run, idx).robots[i].file ELSE a
              fb == IF b = NoPath THEN ReadEntry(run, idx).robots[j].file ELSE b
          IN  i # j => ToLower(fa) # ToLower(fb))
      => DistinctFiles(run.robotsJson[idx].robots)

(***************************************************************************)
(* What a run commits, as a function of the catalog, the flags other than  *)
(* --concurrency and the provider's answers.                               *)
(***************************************************************************)
\* whether processEntry reaches the reconciliation of the entry
Reconciles(entry) ==
  /\ ~parseRepo(entry.repo).none
  /\ Response(entry).meta = "ok" /\ Response(entry).fetch = "ok"
  /\ ~Response(entry).truncated

\* the references of a dispatched entry after its processing
ExpectedRobots(entry) ==
  LET urdfPaths == EntryUrdfPaths(entry, Response(entry).tree)
  IN  IF ~Reconciles(entry) THEN entry.robots
      ELSE IF args.mode = "backfill"
        THEN BackfillRobots(entry.robots, urdfPaths, NormalizedPath(entry))
      ELSE RefreshRobots(entry.robots, urdfPaths, NormalizedPath(entry))

\* refresh drops a reconciled entry without candidates and keeps processed entries only
ExpectedKept(r, idx) ==
  LET entry == ReadEntry(r, idx)
  IN  args.mode = "refresh" =>
        /\ idx \in Dispatched(r)
        /\ ~(Reconciles(entry) /\ EntryUrdfPaths(entry, Response(entry).tree) = <<>>)

ExpectedCatalog(r) ==
  LET Kept(idx) == ExpectedKept(r, idx)
      idxs == SelectSeq([i \in 1..Len(r.input.robots) |-> i], Kept)
  IN  [n \in 1..Len(idxs) |->
         IF idxs[n] \in Dispatched(r)
           THEN [ReadEntry(r, idxs[n]) EXCEPT !.robots = ExpectedRobots(ReadEntry(r, idxs[n]))]
           ELSE ReadEntry(r, idxs[n])]

ExpectedKeys(r) ==
  UNION {PreviewKeysOf(KeyOf(ReadEntry(r, idx)), ExpectedRobots(ReadEntry(r, idx))) :
           idx \in {i \in Dispatched(r) :
                      ExpectedRobots(ReadEntry(r, i)) # ReadEntry(r, i).robots}}

\* C36: for fixed answers of the provider the committed catalog and the
\* stale-preview-key list are the same whatever the concurrency level and the
\* order in which the workers complete
CommitIsScheduleFree ==
  Committed(run) =>
    /\ run.disk.robots = ExpectedCatalog(run)
    /\ args.mode = "backfill" => run.disk.keys = ExpectedKeys(run)

\* two workers have completed entries out of catalog order and the run has committed
CommittedOutOfOrder ==
  /\ Committed(run) /\ Len(run.workers) = 2
  /\ args.mode = "refresh"
  /\ \E i, j \in 1..Len(run.results) : i < j /\ run.results[i].entry > run.results[j].entry

=============================================================================
